---- MODULE Spec2Model ----
(***************************************************************************)
(* Model of src-tauri/src/lib.rs of rustreader: the directory scanner      *)
(* (scan_supported_files), the file classifier (categorize_file), the      *)
(* recent-paths store (load_recent_from_disk, save_recent_to_disk,         *)
(* record_recent_path, get_recent_paths), the config store                 *)
(* (load_config_from_disk, save_config_to_disk, save_app_config), the      *)
(* path normalizer (normalize_file_url_to_path), the durable save system   *)
(* call by system call, and the entry point scan_path.                     *)
(*                                                                         *)
(* A string is a sequence of one-character strings, so that trimming,      *)
(* splitting, joining, suffix tests and byte-wise comparison are computed  *)
(* and not assumed.  A path (PathBuf) is a sequence of components, each a  *)
(* string.                                                                 *)
(***************************************************************************)
EXTENDS Integers, Sequences, FiniteSets, TLC

VARIABLES
  host,           \* "posix" or "windows": the path-separator convention
  tree,           \* the directory tree under the scan root: relative path -> kind
  fault,          \* the one I/O failure the walk meets, if any
  pc,             \* position of scan_supported_files
  stack,          \* stack: Vec<PathBuf>
  dir,            \* the directory being listed
  pending,        \* names read_dir has not yielded yet
  files,          \* files: Vec<ScanFile>
  scanned_dirs,
  scanned_files,
  matched_files,
  last_emit,      \* last_emit: Instant, in ms of the monotonic clock
  now,            \* the monotonic clock, in ms
  began,          \* clock value when the scan began
  events,         \* what emit_scan_progress has sent, in order
  result,         \* the Vec<ScanFile> returned
  pass,           \* 1: first scan, 2: a second scan of the tree
  rescan,         \* "first", or how the second scan's tree relates to the first
  first,          \* outcome of the first scan, kept for comparison
  steps,          \* steps the scan has taken
  recent,         \* the file ~/.rustreader/recent
  recent_tmp,     \* the file ~/.rustreader/recent.tmp
  history,        \* the record calls that returned Ok, oldest first
  pristine,       \* the file began empty or missing and no record has failed
  calls,          \* the latest call to the recent store and the one before it
  ops,            \* calls made to the recent store
  disk,           \* the files of one durable save: inodes, and the names bound to them
  saver,          \* the invocations of a durable save, each with its position
  reader,         \* a concurrent read_to_string of the destination
  config,         \* the file ~/.rustreader/config, its temp file, the latest calls
  request,        \* the latest call of scan_path and what it returned
  pure            \* argument and result of a function applied on its own

scanVars == <<host, tree, fault, pc, stack, dir, pending, files, scanned_dirs,
              scanned_files, matched_files, last_emit, now, began, events,
              result, pass, rescan, first, steps>>

recentVars == <<recent, recent_tmp, history, pristine, calls, ops>>

extVars == <<disk, saver, reader, config, request, pure>>

vars == <<scanVars, recentVars, extVars>>

\* the parts of the program that take no part in a specification stay idle
Idle == [fn |-> "idle"]

ExtIdle ==
  /\ disk = Idle /\ saver = Idle /\ reader = Idle
  /\ config = Idle /\ request = Idle /\ pure = Idle

-----------------------------------------------------------------------------
(* Characters and strings *)

Upper == <<"A","B","C","D","E","F","G","H","I","J","K","L","M",
           "N","O","P","Q","R","S","T","U","V","W","X","Y","Z">>
Lower == <<"a","b","c","d","e","f","g","h","i","j","k","l","m",
           "n","o","p","q","r","s","t","u","v","w","x","y","z">>
Digits == <<"0","1","2","3","4","5","6","7","8","9">>

Range(s) == { s[i] : i \in 1..Len(s) }

IndexIn(s, c) == CHOOSE i \in 1..Len(s) : s[i] = c

\* The byte of an ASCII character: str::cmp compares strings byte by byte.
CharCode(c) ==
  IF c \in Range(Upper) THEN 64 + IndexIn(Upper, c)
  ELSE IF c \in Range(Lower) THEN 96 + IndexIn(Lower, c)
  ELSE IF c \in Range(Digits) THEN 47 + IndexIn(Digits, c)
  ELSE CASE c = "\t" -> 9
         [] c = "\n" -> 10
         [] c = "\r" -> 13
         [] c = " "  -> 32
         [] c = "%"  -> 37
         [] c = "."  -> 46
         [] c = "/"  -> 47
         [] c = ":"  -> 58
         [] c = "\\" -> 92

Min(S) == CHOOSE x \in S : \A y \in S : x <= y

\* a < b in the byte-wise lexicographic order of str (Ord for str)
StrLess(a, b) ==
  LET n == IF Len(a) < Len(b) THEN Len(a) ELSE Len(b)
      d == { i \in 1..n : a[i] # b[i] }
  IN  IF d = {} THEN Len(a) < Len(b)
      ELSE CharCode(a[Min(d)]) < CharCode(b[Min(d)])

\* str::to_lowercase on ASCII text
to_lowercase(s) ==
  [ i \in 1..Len(s) |->
      IF s[i] \in Range(Upper) THEN Lower[IndexIn(Upper, s[i])] ELSE s[i] ]

\* str::ends_with
ends_with(s, suffix) ==
  /\ Len(s) >= Len(suffix)
  /\ SubSeq(s, Len(s) - Len(suffix) + 1, Len(s)) = suffix

\* str::replace(from, to) for a one-character pattern
replace(s, from, to) ==
  [ i \in 1..Len(s) |-> IF s[i] = from THEN to ELSE s[i] ]

Front(s) == SubSeq(s, 1, Len(s) - 1)
Last(s) == s[Len(s)]

RECURSIVE JoinWith(_, _)
\* the strings of parts, joined with the separator sep
JoinWith(parts, sep) ==
  IF parts = <<>> THEN <<>>
  ELSE IF Len(parts) = 1 THEN parts[1]
  ELSE JoinWith(Front(parts), sep) \o <<sep>> \o Last(parts)

-----------------------------------------------------------------------------
(* Paths *)

\* Option<&'static str>::None of categorize_file, as a category
None == "none"

\* std::path::MAIN_SEPARATOR of the host
Separator(h) == IF h = "windows" THEN "\\" ELSE "/"

\* Path::to_string_lossy of a relative path
RelString(h, p) == JoinWith(p, Separator(h))

\* Path::to_string_lossy of an absolute path: the root prefix of the host,
\* then the components
AbsString(h, p) ==
  (IF h = "windows" THEN <<"C", ":", "\\">> ELSE <<"/">>) \o RelString(h, p)

\* Path::strip_prefix: ok and the components after base, or not ok when base
\* is no prefix of path
strip_prefix(path, base) ==
  IF Len(path) >= Len(base) /\ SubSeq(path, 1, Len(base)) = base
  THEN [ok |-> TRUE, rel |-> SubSeq(path, Len(base) + 1, Len(path))]
  ELSE [ok |-> FALSE, rel |-> <<>>]

\* Path::file_name is Some: the path has a last component
has_file_name(path) == path # <<>>

\* Path::file_name: the last component
file_name(path) == Last(path)

\* the position of the last "." of a file name, 0 when it has none
LastDot(name) ==
  LET dots == { i \in 1..Len(name) : name[i] = "." } IN
  IF dots = {} THEN 0 ELSE CHOOSE i \in dots : \A j \in dots : j <= i

\* Path::extension is Some: the file name has a "." that is not its first
\* character
has_extension(path) == has_file_name(path) /\ LastDot(file_name(path)) > 1

\* Path::extension: the part of the file name after its last "."
extension(path) ==
  SubSeq(file_name(path), LastDot(file_name(path)) + 1, Len(file_name(path)))

-----------------------------------------------------------------------------
(* FileClassifier *)

ExtensionTable ==
     (<<"p","n","g">> :> "images") @@ (<<"j","p","g">> :> "images")
  @@ (<<"j","p","e","g">> :> "images") @@ (<<"g","i","f">> :> "images")
  @@ (<<"w","e","b","p">> :> "images")
  @@ (<<"m","p","4">> :> "video") @@ (<<"w","e","b","m">> :> "video")
  @@ (<<"o","g","v">> :> "video") @@ (<<"m","4","v">> :> "video")
  @@ (<<"m","p","3">> :> "audio") @@ (<<"w","a","v">> :> "audio")
  @@ (<<"m","4","a">> :> "audio") @@ (<<"o","g","g">> :> "audio")
  @@ (<<"o","g","a">> :> "audio") @@ (<<"f","l","a","c">> :> "audio")
  @@ (<<"a","a","c">> :> "audio")
  @@ (<<"m","d">> :> "markdown")
  @@ (<<"m","a","r","k","d","o","w","n">> :> "markdown")
  @@ (<<"d","r","a","w","i","o">> :> "drawio")
  @@ (<<"p","d","f">> :> "pdf")
  @@ (<<"d","o","c","x">> :> "word")
  @@ (<<"x","l","s","x">> :> "excel")
  @@ (<<"t","x","t">> :> "text")
  @@ (<<"p","p","t","x">> :> "slides")

\* the two suffix rules left out
categorize_by_extension(path) ==
  IF ~has_extension(path) THEN None
  ELSE LET ext == to_lowercase(extension(path)) IN
       IF ext \in DOMAIN ExtensionTable THEN ExtensionTable[ext] ELSE None

\* categorize_file: the category of a path, None when unsupported
categorize_file(path) ==
  IF ~has_file_name(path) THEN None
  ELSE LET name_lower == to_lowercase(file_name(path)) IN
       IF ends_with(name_lower, <<".","m","m",".","m","d">>) THEN "mindmap"
       ELSE IF ends_with(name_lower, <<".","p","p","t",".","m","d">>) THEN "marpit"
       ELSE IF ~has_extension(path) THEN None
       ELSE LET ext == to_lowercase(extension(path)) IN
            IF ext \in DOMAIN ExtensionTable THEN ExtensionTable[ext] ELSE None

-----------------------------------------------------------------------------
(* The directory tree the scanner walks *)

EMIT_INTERVAL_MS == 120
MaxClockMs == 240

\* what the clock may advance by during one step of the walk
ClockAdvance == {0, EMIT_INTERVAL_MS \div 2}

NameA  == <<"a">>
NameAB == <<"a","\\","b">>
NameC  == <<"c",".","M","D">>
NameBC == <<"b","\\","c",".","M","D">>
NameD  == <<"d">>
NameN  == <<"n">>
NameS  == <<"s",".","m","d">>

\* the entries a tree may hold, by path relative to the root, with the type
\* DirEntry::file_type reports.  A POSIX host allows "\" in a name; Windows
\* does not.
Universe(h) ==
  IF h = "windows"
  THEN (<<NameA>> :> "dir") @@ (<<NameA, NameC>> :> "file")
       @@ (<<NameN>> :> "file")
  ELSE (<<NameA>> :> "dir") @@ (<<NameAB>> :> "dir")
       @@ (<<NameA, NameBC>> :> "file") @@ (<<NameAB, NameC>> :> "file")
       @@ (<<NameA, NameD>> :> "dir")
       @@ (<<NameN>> :> "file") @@ (<<NameS>> :> "symlink")

\* every entry's parent directory is in the tree
ParentClosed(S) == \A n \in S : Len(n) > 1 => Front(n) \in S

Trees(h) ==
  { [n \in S |-> Universe(h)[n]] :
      S \in { T \in SUBSET DOMAIN Universe(h) : ParentClosed(T) } }

NoFault == [kind |-> "none", at |-> <<>>]

\* the directories of a tree, the root (the empty relative path) included
DirsOf(t) == {<<>>} \cup { n \in DOMAIN t : t[n] = "dir" }

\* at most one failure per walk: a directory read_dir cannot list, an entry
\* the directory iterator fails on, or an entry whose file_type fails
Faults(t) ==
  {NoFault}
  \cup { [kind |-> "read_dir", at |-> d] : d \in DirsOf(t) }
  \cup { [kind |-> k, at |-> n] : k \in {"entry", "file_type"}, n \in DOMAIN t }

\* root: the absolute directory the scan is given
Root == << <<"r">> >>

\* the names read_dir(d) yields
Children(t, d) ==
  LET rel == strip_prefix(d, Root).rel IN
  { Last(n) : n \in { m \in DOMAIN t : Front(m) = rel } }

\* the tree with the failing directory empty, or the failing entry absent
Prune(t, f) ==
  LET gone == { n \in DOMAIN t :
                  /\ Len(n) >= Len(f.at)
                  /\ SubSeq(n, 1, Len(f.at)) = f.at
                  /\ (f.kind = "read_dir" => n # f.at) }
  IN  [n \in (DOMAIN t) \ gone |-> t[n]]

-----------------------------------------------------------------------------
(* DirectoryScanner: scan_supported_files *)

ScanProgressEvent(stage, dirs, nfiles, matched, path, at) ==
  [stage |-> stage, scanned_dirs |-> dirs, scanned_files |-> nfiles,
   matched_files |-> matched, current_path |-> path, at |-> at]

ScanFile(h, path, rel, category) ==
  [virtual_path |-> replace(RelString(h, rel), "\\", "/"),
   abs_path |-> AbsString(h, path),
   category |-> category]

\* the comparison of the interval check inverted
ShouldEmitInverted(t, last) == t - last <= EMIT_INTERVAL_MS

\* last_emit.elapsed() >= emit_interval, read at clock value t
ShouldEmit(t, last) == t - last >= EMIT_INTERVAL_MS

\* the rate-limited emit at a checkpoint: the event is appended and last_emit
\* is reset only when the interval has elapsed
Checkpoint(dirs, nfiles, matched, path) ==
  IF ShouldEmit(now, last_emit)
  THEN /\ events' = Append(events,
                       ScanProgressEvent("progress", dirs, nfiles, matched, path, now))
       /\ last_emit' = now
  ELSE /\ events' = events
       /\ last_emit' = last_emit

\* the clock never goes back
Tick == \E d \in ClockAdvance : now + d <= MaxClockMs /\ now' = now + d

RECURSIVE sort_by_virtual_path(_)
\* files.sort_by(|a, b| a.virtual_path.cmp(&b.virtual_path)): a stable sort,
\* entries with equal keys keep the order they were pushed in
sort_by_virtual_path(s) ==
  IF s = <<>> THEN <<>>
  ELSE LET rest == sort_by_virtual_path(Front(s))
           x == Last(s)
           k == Cardinality({ i \in 1..Len(rest) :
                                ~StrLess(x.virtual_path, rest[i].virtual_path) })
       IN  SubSeq(rest, 1, k) \o <<x>> \o SubSeq(rest, k + 1, Len(rest))

envVars == <<host, tree, fault, pass, rescan, first>>

\* lines 359-378: the locals are set up and `start` is emitted
Begin ==
  /\ pc = "idle"
  /\ stack' = <<Root>>
  /\ files' = <<>>
  /\ scanned_dirs' = 0 /\ scanned_files' = 0 /\ matched_files' = 0
  /\ last_emit' = now
  /\ began' = now
  /\ events' = <<ScanProgressEvent("start", 0, 0, 0, Root, now)>>
  /\ pc' = "loop"
  /\ Tick
  /\ steps' = steps + 1
  /\ UNCHANGED <<dir, pending, result, envVars, recentVars, extVars>>

read_dir_fails(d) ==
  fault.kind = "read_dir" /\ strip_prefix(d, Root).rel = fault.at

\* a failing read_dir ends the walk (break) instead of skipping the directory
PopDirBreakOnError ==
  /\ pc = "loop" /\ stack # <<>>
  /\ LET d == Last(stack) IN
     /\ stack' = IF read_dir_fails(d) THEN <<>> ELSE Front(stack)
     /\ scanned_dirs' = scanned_dirs + 1
     /\ Checkpoint(scanned_dirs + 1, scanned_files, matched_files, d)
     /\ dir' = d
     /\ IF read_dir_fails(d)
        THEN pc' = "loop" /\ pending' = {}
        ELSE pc' = "entries" /\ pending' = Children(tree, d)
  /\ Tick
  /\ steps' = steps + 1
  /\ UNCHANGED <<files, scanned_files, matched_files, began, result, envVars, recentVars, extVars>>

\* lines 380-399: a directory is popped, counted, and listed
PopDir ==
  /\ pc = "loop" /\ stack # <<>>
  /\ LET d == Last(stack) IN
     /\ stack' = Front(stack)
     /\ scanned_dirs' = scanned_dirs + 1
     /\ Checkpoint(scanned_dirs + 1, scanned_files, matched_files, d)
     /\ dir' = d
     /\ IF read_dir_fails(d)
        THEN pc' = "loop" /\ pending' = {}
        ELSE pc' = "entries" /\ pending' = Children(tree, d)
  /\ Tick
  /\ steps' = steps + 1
  /\ UNCHANGED <<files, scanned_files, matched_files, began, result, envVars, recentVars, extVars>>

\* the next entry of the listing: any name not yet yielded
NextEntry(name) ==
  /\ pc = "entries" /\ name \in pending
  /\ pending' = pending \ {name}

EntryRel(name) == strip_prefix(Append(dir, name), Root).rel

\* lines 402-405: the iterator yields Err for the entry
EntryUnreadable ==
  \E name \in pending :
    /\ NextEntry(name)
    /\ fault.kind = "entry" /\ fault.at = EntryRel(name)
    /\ steps' = steps + 1
    /\ UNCHANGED <<now, pc, stack, dir, files, scanned_dirs, scanned_files,
                   matched_files, last_emit, began, events, result, envVars, recentVars, extVars>>

\* lines 407-410: entry.file_type() fails
EntryTypeUnknown ==
  \E name \in pending :
    /\ NextEntry(name)
    /\ fault.kind = "file_type" /\ fault.at = EntryRel(name)
    /\ steps' = steps + 1
    /\ UNCHANGED <<now, pc, stack, dir, files, scanned_dirs, scanned_files,
                   matched_files, last_emit, began, events, result, envVars, recentVars, extVars>>

Readable(name) ==
  ~(fault.kind \in {"entry", "file_type"} /\ fault.at = EntryRel(name))

\* the push placed inside the rate-limited branch: a directory is pushed
\* only when a progress event is sent
EntryDirectoryPushOnEmit ==
  \E name \in pending :
    /\ NextEntry(name)
    /\ Readable(name) /\ tree[EntryRel(name)] = "dir"
    /\ Checkpoint(scanned_dirs, scanned_files, matched_files, Append(dir, name))
    /\ stack' = IF ShouldEmit(now, last_emit)
                THEN Append(stack, Append(dir, name)) ELSE stack
    /\ Tick
    /\ steps' = steps + 1
    /\ UNCHANGED <<pc, dir, files, scanned_dirs, scanned_files, matched_files,
                   began, result, envVars, recentVars, extVars>>

\* lines 412-430: a directory is pushed for later
EntryDirectory ==
  \E name \in pending :
    /\ NextEntry(name)
    /\ Readable(name) /\ tree[EntryRel(name)] = "dir"
    /\ Checkpoint(scanned_dirs, scanned_files, matched_files, Append(dir, name))
    /\ stack' = Append(stack, Append(dir, name))
    /\ Tick
    /\ steps' = steps + 1
    /\ UNCHANGED <<pc, dir, files, scanned_dirs, scanned_files, matched_files,
                   began, result, envVars, recentVars, extVars>>

\* lines 431-433: neither a directory nor a regular file
EntryOther ==
  \E name \in pending :
    /\ NextEntry(name)
    /\ Readable(name) /\ tree[EntryRel(name)] \notin {"dir", "file"}
    /\ steps' = steps + 1
    /\ UNCHANGED <<now, pc, stack, dir, files, scanned_dirs, scanned_files,
                   matched_files, last_emit, began, events, result, envVars, recentVars, extVars>>

\* lines 435-452: a regular file categorize_file does not know
EntryUnsupported ==
  \E name \in pending :
    /\ NextEntry(name)
    /\ Readable(name) /\ tree[EntryRel(name)] = "file"
    /\ categorize_file(Append(dir, name)) = None
    /\ scanned_files' = scanned_files + 1
    /\ Checkpoint(scanned_dirs, scanned_files + 1, matched_files, Append(dir, name))
    /\ Tick
    /\ steps' = steps + 1
    /\ UNCHANGED <<pc, stack, dir, files, scanned_dirs, matched_files, began,
                   result, envVars, recentVars, extVars>>

\* lines 435-480: a supported regular file
EntryMatched ==
  \E name \in pending :
    /\ NextEntry(name)
    /\ Readable(name) /\ tree[EntryRel(name)] = "file"
    /\ LET path == Append(dir, name)
           category == categorize_file(path)
           rel == strip_prefix(path, Root)
       IN  /\ category # None
           /\ scanned_files' = scanned_files + 1
           /\ matched_files' = matched_files + 1
           /\ IF rel.ok
              THEN /\ files' = Append(files, ScanFile(host, path, rel.rel, category))
                   /\ Checkpoint(scanned_dirs, scanned_files + 1, matched_files + 1, path)
              ELSE UNCHANGED <<files, events, last_emit>>
    /\ Tick
    /\ steps' = steps + 1
    /\ UNCHANGED <<pc, stack, dir, scanned_dirs, began, result, envVars, recentVars, extVars>>

\* line 401: the listing is exhausted
EndOfDir ==
  /\ pc = "entries" /\ pending = {}
  /\ pc' = "loop"
  /\ steps' = steps + 1
  /\ UNCHANGED <<now, stack, dir, pending, files, scanned_dirs, scanned_files,
                 matched_files, last_emit, began, events, result, envVars, recentVars, extVars>>

\* `done` is sent only when some file matched
FinishSilentWhenEmpty ==
  /\ pc = "loop" /\ stack = <<>>
  /\ events' = IF files = <<>> THEN events
               ELSE Append(events,
                      ScanProgressEvent("done", scanned_dirs, scanned_files,
                                        matched_files, Root, now))
  /\ result' = sort_by_virtual_path(files)
  /\ pc' = "done"
  /\ Tick
  /\ steps' = steps + 1
  /\ UNCHANGED <<stack, dir, pending, files, scanned_dirs, scanned_files,
                 matched_files, last_emit, began, envVars, recentVars, extVars>>

\* `done` carries the payload of `start`
FinishStartPayload ==
  /\ pc = "loop" /\ stack = <<>>
  /\ events' = Append(events, ScanProgressEvent("done", 0, 0, 0, Root, now))
  /\ result' = sort_by_virtual_path(files)
  /\ pc' = "done"
  /\ Tick
  /\ steps' = steps + 1
  /\ UNCHANGED <<stack, dir, pending, files, scanned_dirs, scanned_files,
                 matched_files, last_emit, began, envVars, recentVars, extVars>>

\* lines 484-497: the stack is empty; `done` is emitted, the files are sorted
\* and returned
Finish ==
  /\ pc = "loop" /\ stack = <<>>
  /\ events' = Append(events,
                 ScanProgressEvent("done", scanned_dirs, scanned_files,
                                   matched_files, Root, now))
  /\ result' = sort_by_virtual_path(files)
  /\ pc' = "done"
  /\ Tick
  /\ steps' = steps + 1
  /\ UNCHANGED <<stack, dir, pending, files, scanned_dirs, scanned_files,
                 matched_files, last_emit, began, envVars, recentVars, extVars>>

\* the same root is scanned a second time: the same tree with the same
\* failure, or the tree with the failing directory empty (the failing entry
\* absent) and no failure
Rescan ==
  /\ pc = "done" /\ pass = 1
  /\ \E how \in {"same", "pruned"} :
       /\ how = "pruned" <=> fault # NoFault
       /\ rescan' = how
       /\ tree' = IF how = "pruned" THEN Prune(tree, fault) ELSE tree
       /\ fault' = IF how = "pruned" THEN NoFault ELSE fault
  /\ first' = [files |-> result, scanned_dirs |-> scanned_dirs,
               scanned_files |-> scanned_files, matched_files |-> matched_files,
               fault |-> fault.kind, hidden |-> Prune(tree, fault) # tree]
  /\ pass' = 2
  /\ pc' = "idle"
  /\ stack' = <<>> /\ dir' = <<>> /\ pending' = {} /\ files' = <<>>
  /\ scanned_dirs' = 0 /\ scanned_files' = 0 /\ matched_files' = 0
  /\ last_emit' = 0 /\ now' = 0 /\ began' = 0
  /\ events' = <<>> /\ result' = <<>> /\ steps' = 0
  /\ UNCHANGED <<host, recentVars, extVars>>

ScanInit ==
  /\ host \in {"posix", "windows"}
  /\ tree \in Trees(host)
  /\ fault \in Faults(tree)
  /\ pc = "idle"
  /\ stack = <<>> /\ dir = <<>> /\ pending = {} /\ files = <<>>
  /\ scanned_dirs = 0 /\ scanned_files = 0 /\ matched_files = 0
  /\ last_emit = 0 /\ now = 0 /\ began = 0
  /\ events = <<>> /\ result = <<>> /\ steps = 0
  /\ pass = 1 /\ rescan = "first"
  /\ first = [files |-> <<>>, scanned_dirs |-> 0, scanned_files |-> 0,
              matched_files |-> 0, fault |-> "none", hidden |-> FALSE]

-----------------------------------------------------------------------------
(* RecentStore *)

RECENT_LIMIT_DEFAULT == 20
MaxOps == 2

\* char::is_whitespace, for the characters of the model
WhiteSpace == {" ", "\t", "\n", "\r"}

RECURSIVE trim_start(_)
trim_start(s) ==
  IF s # <<>> /\ Head(s) \in WhiteSpace THEN trim_start(Tail(s)) ELSE s

RECURSIVE trim_end(_)
trim_end(s) ==
  IF s # <<>> /\ Last(s) \in WhiteSpace THEN trim_end(Front(s)) ELSE s

\* str::trim
trim(s) == trim_end(trim_start(s))

\* str::replace(c, "")
remove_char(s, c) == SelectSeq(s, LAMBDA x : x # c)

NoEntry == [some |-> FALSE, value |-> <<>>]

\* sanitize_recent_entry: the trimmed value without "\n" and "\r", None when
\* nothing is left
sanitize_recent_entry(value) ==
  LET v == trim(value) IN
  IF v = <<>> THEN NoEntry
  ELSE LET w == trim(remove_char(remove_char(v, "\n"), "\r")) IN
       IF w = <<>> THEN NoEntry ELSE [some |-> TRUE, value |-> w]

RECURSIVE lines(_)
\* str::lines: split at "\n", a "\r" before the "\n" belongs to the line
\* ending, the last line need not be terminated
lines(content) ==
  IF content = <<>> THEN <<>>
  ELSE LET ends == { i \in 1..Len(content) : content[i] = "\n" } IN
       IF ends = {} THEN <<content>>
       ELSE LET k == Min(ends)
                line == SubSeq(content, 1, k - 1)
            IN  <<IF line # <<>> /\ Last(line) = "\r" THEN Front(line) ELSE line>>
                \o lines(SubSeq(content, k + 1, Len(content)))

RECURSIVE collect_entries(_, _)
\* the loop of load_recent_from_disk: sanitized lines, first occurrence only
collect_entries(ls, entries) ==
  IF ls = <<>> THEN entries
  ELSE LET entry == sanitize_recent_entry(Head(ls)) IN
       IF ~entry.some \/ entry.value \in Range(entries)
       THEN collect_entries(Tail(ls), entries)
       ELSE collect_entries(Tail(ls), Append(entries, entry.value))

Missing == [exists |-> FALSE, content |-> <<>>]
FileWith(content) == [exists |-> TRUE, content |-> content]

\* the entries kept although a line repeats an earlier one
load_recent_keeping_duplicates(file, io) ==
  IF io.no_home THEN [ok |-> FALSE, entries |-> <<>>]
  ELSE IF ~file.exists THEN [ok |-> TRUE, entries |-> <<>>]
  ELSE IF io.read_fails THEN [ok |-> FALSE, entries |-> <<>>]
  ELSE [ok |-> TRUE,
        entries |-> SelectSeq(lines(file.content),
                              LAMBDA l : sanitize_recent_entry(l).some)]

\* load_recent_from_disk: Err without a home directory or when the read
\* fails, the empty list when the file does not exist
load_recent_from_disk(file, io) ==
  IF io.no_home THEN [ok |-> FALSE, entries |-> <<>>]
  ELSE IF ~file.exists THEN [ok |-> TRUE, entries |-> <<>>]
  ELSE IF io.read_fails THEN [ok |-> FALSE, entries |-> <<>>]
  ELSE [ok |-> TRUE, entries |-> collect_entries(lines(file.content), <<>>)]

\* Result::unwrap_or_default of a loaded list
unwrap_or_default(loaded) == IF loaded.ok THEN loaded.entries ELSE <<>>

\* Vec::truncate
truncate(s, n) == IF Len(s) > n THEN SubSeq(s, 1, n) ELSE s

\* the file content save_recent_to_disk writes for entries
recent_content(entries) ==
  IF entries = <<>> THEN <<>> ELSE JoinWith(entries, "\n") \o <<"\n">>

\* save_recent_to_disk on the files fs = [recent, tmp] under the I/O results
\* io: whether it returned Ok, and the files afterwards
save_recent_to_disk(fs, entries, io) ==
  LET content == recent_content(entries)
      failed(t) == [ok |-> FALSE, recent |-> fs.recent, tmp |-> t]
  IN
  IF io.no_home \/ io.mkdir_fails THEN failed(fs.tmp)
  ELSE IF io.tmp = "create" THEN failed(fs.tmp)
  ELSE IF io.tmp = "write" THEN failed(FileWith(<<>>))
  ELSE IF ~io.rename_fails
       THEN [ok |-> TRUE, recent |-> FileWith(content), tmp |-> Missing]
  ELSE LET dest == IF io.remove_fails THEN fs.recent ELSE Missing IN
       IF ~io.retry_fails
       THEN [ok |-> TRUE, recent |-> FileWith(content), tmp |-> Missing]
       ELSE [ok |-> FALSE, recent |-> dest, tmp |-> FileWith(content)]

\* save_recent_to_disk(&entries) as record_recent_path ends with it; read_ok
\* notes whether the list had been read
save_recorded(fs, entries, io, read_ok) ==
  [read_ok |-> read_ok] @@ save_recent_to_disk(fs, entries, io)

\* the list without the truncation
recorded_entries_unbounded(entries, value) ==
  <<value>> \o SelectSeq(entries, LAMBDA e : e # value)

\* an earlier occurrence of the value is kept
recorded_entries_keeping_old(entries, value) ==
  truncate(<<value>> \o entries, RECENT_LIMIT_DEFAULT)

\* the value appended instead of inserted at the front
recorded_entries_appended(entries, value) ==
  truncate(Append(SelectSeq(entries, LAMBDA e : e # value), value),
           RECENT_LIMIT_DEFAULT)

\* the list record_recent_path persists: value first, no other occurrence
recorded_entries(entries, value) ==
  truncate(<<value>> \o SelectSeq(entries, LAMBDA e : e # value),
           RECENT_LIMIT_DEFAULT)

\* lines 155-159 of record_recent_path, with the list as loaded
record_loaded(fs, value, loaded, io) ==
  save_recorded(fs, recorded_entries(unwrap_or_default(loaded), value), io,
                loaded.ok)

\* record_recent_path: Ok and nothing written for a blank path; otherwise the
\* list is loaded (empty when that fails), updated and saved
record_recent_path(fs, path, io) ==
  LET value == sanitize_recent_entry(path) IN
  IF ~value.some
  THEN [ok |-> TRUE, recent |-> fs.recent, tmp |-> fs.tmp, read_ok |-> TRUE]
  ELSE record_loaded(fs, value.value, load_recent_from_disk(fs.recent, io), io)

NoLimit == [some |-> FALSE, value |-> 0]
SomeLimit(n) == [some |-> TRUE, value |-> n]

\* lines 695-697 of get_recent_paths, with the list as loaded
limited(loaded, n) ==
  [entries |-> truncate(unwrap_or_default(loaded), n), read_ok |-> loaded.ok]

\* get_recent_paths: the loaded list (empty when the load fails) cut to the
\* limit, RECENT_LIMIT_DEFAULT when the limit is absent or 0
get_recent_paths(file, limit, io) ==
  limited(load_recent_from_disk(file, io),
          IF limit.some /\ limit.value > 0 THEN limit.value
          ELSE RECENT_LIMIT_DEFAULT)

\* the results of the system calls of one call: at most one failure along
\* the save, the read of the list failing or not
NoIo == [no_home |-> FALSE, read_fails |-> FALSE, mkdir_fails |-> FALSE,
         tmp |-> "ok", rename_fails |-> FALSE, remove_fails |-> FALSE,
         retry_fails |-> FALSE]

IoOutcomes ==
  { io \in [no_home : BOOLEAN, read_fails : BOOLEAN, mkdir_fails : BOOLEAN,
            tmp : {"ok", "create", "write"}, rename_fails : BOOLEAN,
            remove_fails : BOOLEAN, retry_fails : BOOLEAN] :
      /\ io.no_home => io = [NoIo EXCEPT !.no_home = TRUE]
      /\ io.mkdir_fails => io.tmp = "ok" /\ ~io.rename_fails
      /\ io.tmp # "ok" => ~io.rename_fails
      /\ ~io.rename_fails => ~io.remove_fails /\ ~io.retry_fails }

ReadOutcomes ==
  { io \in IoOutcomes :
      ~io.mkdir_fails /\ io.tmp = "ok" /\ ~io.rename_fails }

\* the i-th path of a numbered family of absolute paths: "/01", "/02", ...
PathNo(i) == <<"/", Digits[(i \div 10) + 1], Digits[(i % 10) + 1]>>

\* the paths recorded: absolute paths, one already in a full list, two new
\* ones, and one that differs from a new one by a line break and a trailing
\* space in its last component
RecordInputs ==
  { PathNo(1), PathNo(RECENT_LIMIT_DEFAULT + 1), PathNo(RECENT_LIMIT_DEFAULT + 2),
    <<"/", "2", "\n", "1", " ">> }

Limits == { NoLimit, SomeLimit(0), SomeLimit(1), SomeLimit(RECENT_LIMIT_DEFAULT + 5) }

\* the list after the paths 1..n were recorded in this order
RecordedList(n) == [k \in 1..n |-> PathNo(n + 1 - k)]
RecordedHistory(n) == [k \in 1..n |-> [path |-> PathNo(k), read_ok |-> TRUE]]

\* files this program did not write: more lines than the limit; repeated,
\* blank and whitespace-only lines, CRLF endings, no final line ending
LongFile ==
  FileWith(recent_content([k \in 1..(RECENT_LIMIT_DEFAULT + 2) |-> PathNo(k)]))

UntidyFile ==
  FileWith(PathNo(1) \o <<"\n">> \o <<"\n">> \o <<" ", "\t", "\n">>
           \o PathNo(1) \o <<"\n">> \o <<" ">> \o PathNo(2) \o <<" ", "\n">>
           \o PathNo(3) \o <<"\r", "\n">> \o PathNo(2) \o <<"\r", "\n">>
           \o PathNo(4))

NoCall == [op |-> "none", path |-> <<>>, ok |-> TRUE, read_ok |-> TRUE]

RecentIdle ==
  /\ recent = Missing /\ recent_tmp = Missing
  /\ history = <<>> /\ pristine = TRUE
  /\ calls = [call |-> NoCall, before |-> NoCall, loaded |-> <<>>]
  /\ ops = 0

RecentInit ==
  /\ \E n \in {0, RECENT_LIMIT_DEFAULT - 1, RECENT_LIMIT_DEFAULT} :
       \/ /\ recent \in (IF n = 0 THEN {Missing, FileWith(<<>>)}
                         ELSE {FileWith(recent_content(RecordedList(n)))})
          /\ history = RecordedHistory(n)
          /\ pristine = TRUE
       \/ /\ n = 0
          /\ recent \in {LongFile, UntidyFile}
          /\ history = <<>>
          /\ pristine = FALSE
  /\ recent_tmp = Missing
  /\ calls = [call |-> NoCall, before |-> NoCall, loaded |-> <<>>]
  /\ ops = 0

\* a call of record_recent_path(path)
RecordRecentPath ==
  /\ ops < MaxOps
  /\ \E path \in RecordInputs, io \in IoOutcomes :
       \E r \in {record_recent_path([recent |-> recent, tmp |-> recent_tmp], path, io)} :
         LET call == [op |-> "record", path |-> path, ok |-> r.ok,
                      read_ok |-> r.read_ok]
         IN  /\ recent' = r.recent
             /\ recent_tmp' = r.tmp
             /\ history' = IF r.ok
                           THEN Append(history, [path |-> path, read_ok |-> r.read_ok])
                           ELSE history
             /\ pristine' = (pristine /\ r.ok)
             /\ calls' = [call |-> call, before |-> calls.call, loaded |-> <<>>]
  /\ ops' = ops + 1
  /\ UNCHANGED <<scanVars, extVars>>

\* a call of get_recent_paths(limit)
GetRecentPaths ==
  /\ ops < MaxOps
  /\ \E limit \in Limits, io \in ReadOutcomes :
       \E got \in {get_recent_paths(recent, limit, io)} :
         LET call == [op |-> "load", path |-> <<>>, ok |-> TRUE,
                      read_ok |-> got.read_ok]
         IN  calls' = [call |-> call, before |-> calls.call, loaded |-> got.entries]
  /\ ops' = ops + 1
  /\ UNCHANGED <<scanVars, extVars, recent, recent_tmp, history, pristine>>

ScanIdle ==
  /\ host = "posix" /\ tree = <<>> /\ fault = NoFault
  /\ pc = "idle"
  /\ stack = <<>> /\ dir = <<>> /\ pending = {} /\ files = <<>>
  /\ scanned_dirs = 0 /\ scanned_files = 0 /\ matched_files = 0
  /\ last_emit = 0 /\ now = 0 /\ began = 0
  /\ events = <<>> /\ result = <<>> /\ steps = 0
  /\ pass = 1 /\ rescan = "first"
  /\ first = [files |-> <<>>, scanned_dirs |-> 0, scanned_files |-> 0,
              matched_files |-> 0, fault |-> "none", hidden |-> FALSE]

RecentNext == RecordRecentPath \/ GetRecentPaths

\* the recent store used on its own
RecentSpecInit == ScanIdle /\ RecentInit /\ ExtIdle

RecentSpec == RecentSpecInit /\ [][RecentNext]_vars

ScanStep ==
  \/ Begin
  \/ PopDir
  \/ EntryUnreadable
  \/ EntryTypeUnknown
  \/ EntryDirectory
  \/ EntryOther
  \/ EntryUnsupported
  \/ EntryMatched
  \/ EndOfDir
  \/ Finish

Init == ScanInit /\ RecentIdle /\ ExtIdle

Next == ScanStep \/ Rescan

Spec == Init /\ [][Next]_vars

\* the walk is a running loop: a step that can be taken is taken
FairSpec == Spec /\ WF_vars(ScanStep)

-----------------------------------------------------------------------------
(* Properties of the scanner *)

Stages(evs) == [i \in 1..Len(evs) |-> evs[i].stage]

\* the events sent so far are `start`, then `progress` events, then `done`
\* as the last one once the scan has returned; nothing is listed before
\* `start`
EventOrder ==
  /\ pc = "idle" => events = <<>> /\ scanned_dirs = 0
  /\ pc # "idle" => events # <<>> /\ events[1].stage = "start"
  /\ \A i \in 2..Len(events) :
       \/ events[i].stage = "progress"
       \/ events[i].stage = "done" /\ i = Len(events)
  /\ pc = "done" <=> (events # <<>> /\ Last(events).stage = "done")

\* the walk takes one step to begin, two per directory (pop, end of listing),
\* one per entry and one to finish
WalkBound == 2 + 2 * Cardinality(DirsOf(tree)) + Cardinality(DOMAIN tree)

\* C1: every scan terminates (it can always take a step until it has
\* returned, and takes no more steps than the tree allows), and its events
\* are exactly one `start`, then zero or more `progress`, then exactly one
\* `done`; no directory is listed before `start` and nothing is sent after
\* `done`.
C1_StartProgressDone ==
  /\ EventOrder
  /\ pc = "done" \/ ENABLED ScanStep
  /\ steps <= WalkBound

\* the same termination as a property of the fair walk
C1_Terminates == (pc # "done") ~> (pc = "done")

\* a scan of a tree with an unlistable directory has returned, having sent a
\* progress event
C1_Witness ==
  /\ pc = "done" /\ fault.kind = "read_dir"
  /\ Stages(events) = <<"start", "progress", "done">>

\* an empty root: start and done only
C1_EmptyRoot ==
  pc = "done" /\ tree = <<>> => Stages(events) = <<"start", "done">> /\ result = <<>>

\* the entry at relative path n is reached by the walk: every directory above
\* it can be listed, and the entry and its type can be read on the way down
Reached(n) ==
  /\ \A k \in 0..(Len(n) - 1) :
       ~(fault.kind = "read_dir" /\ fault.at = SubSeq(n, 1, k))
  /\ \A k \in 1..Len(n) :
       ~(fault.kind \in {"entry", "file_type"} /\ fault.at = SubSeq(n, 1, k))

ReachedFiles == { n \in DOMAIN tree : tree[n] = "file" /\ Reached(n) }

SupportedFiles == { n \in ReachedFiles : categorize_file(Root \o n) # None }

\* C2: the files returned are exactly the reached regular files whose
\* category is not none, each once and with its category; a file of category
\* none is counted in scanned_files and is not returned.
C2_ExactlySupportedFiles ==
  pc = "done" =>
    /\ { result[i].abs_path : i \in 1..Len(result) }
         = { AbsString(host, Root \o n) : n \in SupportedFiles }
    /\ Len(result) = Cardinality(SupportedFiles)
    /\ \A i \in 1..Len(result) : result[i].category # None
    /\ scanned_files = Cardinality(ReachedFiles)
    /\ matched_files = Cardinality(SupportedFiles)

\* a scan has returned files from two directories and counted a file of
\* category none that it did not return
C2_Witness ==
  /\ pc = "done" /\ Len(result) = 2 /\ scanned_files = 3
  /\ <<NameN>> \in ReachedFiles

SortedByVirtualPath(s) ==
  \A i \in 1..(Len(s) - 1) : ~StrLess(s[i + 1].virtual_path, s[i].virtual_path)

\* C3: the returned list is sorted ascending by virtual_path, and a second
\* scan of the same tree returns the identical sequence whatever the listing
\* order.
C3_SortedAndDeterministic ==
  /\ pc = "done" => SortedByVirtualPath(result)
  /\ pc = "done" /\ pass = 2 /\ rescan = "same" => result = first.files

\* the part of C3 that the code keeps: the list is sorted
C3_Sorted == pc = "done" => SortedByVirtualPath(result)

\* C4: no two entries of one scan result have the same virtual_path.
C4_UniqueVirtualPath ==
  pc = "done" =>
    \A i, j \in 1..Len(result) :
      i # j => result[i].virtual_path # result[j].virtual_path

\* on a host whose separator is not "/" no name holds a separator, and the
\* virtual paths are distinct and free of "\"
C4_WindowsUnique ==
  pc = "done" /\ host = "windows" =>
    \A i, j \in 1..Len(result) :
      /\ i # j => result[i].virtual_path # result[j].virtual_path
      /\ "\\" \notin Range(result[i].virtual_path)

Occurrences(s, x) == Cardinality({ i \in 1..Len(s) : s[i] = x })

SameEntries(s, t) ==
  /\ Len(s) = Len(t)
  /\ \A i \in 1..Len(s) : Occurrences(s, s[i]) = Occurrences(t, s[i])

DistinctVirtualPaths(s) ==
  \A i, j \in 1..Len(s) : i # j => s[i].virtual_path # s[j].virtual_path

\* C5: a scan that met an unlistable directory, an unreadable entry or an
\* entry of unreadable type returns what a scan of the tree without the
\* failing part returns: the same entries (the same sequence when the virtual
\* paths are distinct), the same scanned_files and matched_files.
C5_FailureIsSkipped ==
  pc = "done" /\ pass = 2 /\ rescan = "pruned" =>
    /\ SameEntries(first.files, result)
    /\ DistinctVirtualPaths(result) => first.files = result
    /\ first.scanned_files = scanned_files
    /\ first.matched_files = matched_files

\* the first scan could not list a directory that holds entries, and still
\* returned a file found elsewhere
C5_Witness ==
  /\ pc = "done" /\ pass = 2 /\ rescan = "pruned"
  /\ first.fault = "read_dir" /\ first.hidden
  /\ result # <<>>

\* the clock value of the send before event i: the latest earlier progress
\* event, or the beginning of the scan
PreviousSend(i) ==
  LET earlier == { j \in 1..(i - 1) : events[j].stage = "progress" } IN
  IF earlier = {} THEN began
  ELSE events[CHOOSE j \in earlier : \A k \in earlier : k <= j].at

\* C6: every progress event is sent at least 120 ms after the previous
\* progress event, the first at least 120 ms after the scan began; start and
\* done are sent whatever the clock says.
C6_ProgressRateLimited ==
  /\ \A i \in 1..Len(events) :
       events[i].stage = "progress" =>
         events[i].at - PreviousSend(i) >= EMIT_INTERVAL_MS
  /\ pc # "idle" => events[1].stage = "start" /\ events[1].at = began
  /\ pc = "done" => Last(events).stage = "done"

\* two progress events exactly one interval apart, and done sent less than an
\* interval after the second
C6_Witness ==
  /\ pc = "done" /\ Len(events) = 4
  /\ events[3].at - events[2].at = EMIT_INTERVAL_MS
  /\ events[4].at - events[3].at < EMIT_INTERVAL_MS

Counters(e) == <<e.scanned_dirs, e.scanned_files, e.matched_files>>

LeqAll(a, b) == \A k \in 1..3 : a[k] <= b[k]

\* C7: the counters of an event are at least those of every earlier event of
\* the scan, start carries zeros, and the counters the walk holds are never
\* below those it last sent.
C7_CountersMonotonic ==
  /\ \A i, j \in 1..Len(events) :
       i < j => LeqAll(Counters(events[i]), Counters(events[j]))
  /\ events # <<>> => Counters(events[1]) = <<0, 0, 0>>
  /\ events # <<>> /\ pc # "done" =>
       LeqAll(Counters(Last(events)),
              <<scanned_dirs, scanned_files, matched_files>>)
  /\ pc = "done" =>
       Counters(Last(events)) = <<scanned_dirs, scanned_files, matched_files>>

\* a progress event with counted files, then done with larger counters
C7_Witness ==
  /\ pc = "done" /\ Len(events) >= 3
  /\ events[2].scanned_files >= 1
  /\ events[Len(events)].matched_files > events[2].matched_files


-----------------------------------------------------------------------------
(* Properties of the recent store *)

\* the list a load that can read the file returns
PersistedList == load_recent_from_disk(recent, NoIo).entries

Sanitized(path) == sanitize_recent_entry(path).value

RecordedThenLoaded ==
  /\ calls.call.op = "load" /\ calls.call.read_ok
  /\ calls.before.op = "record" /\ calls.before.ok

RecordedTwice ==
  /\ calls.call.op = "record" /\ calls.call.ok
  /\ calls.before.op = "record" /\ calls.before.ok
  /\ calls.before.path = calls.call.path

\* C8 as claimed: after record(p) a load returns p first, and after record(p)
\* twice in a row the list holds p exactly once, first.
C8_RecordedPathFirst ==
  /\ RecordedThenLoaded =>
       calls.loaded # <<>> /\ calls.loaded[1] = calls.before.path
  /\ RecordedTwice =>
       /\ PersistedList # <<>> /\ PersistedList[1] = calls.call.path
       /\ Occurrences(PersistedList, calls.call.path) = 1

\* C8: after record(p) a load that can read the file returns the sanitized p
\* (p trimmed, without CR and LF) first, and after record(p) twice in a row
\* the list holds the sanitized p exactly once, first.
C8_SanitizedPathFirst ==
  /\ RecordedThenLoaded =>
       calls.loaded # <<>> /\ calls.loaded[1] = Sanitized(calls.before.path)
  /\ RecordedTwice =>
       /\ PersistedList # <<>> /\ PersistedList[1] = Sanitized(calls.call.path)
       /\ Occurrences(PersistedList, Sanitized(calls.call.path)) = 1

\* a path already in a full list was recorded twice in a row
C8_Witness ==
  /\ RecordedTwice /\ calls.call.path = PathNo(1)
  /\ Len(PersistedList) = RECENT_LIMIT_DEFAULT

\* a path with a line break and a trailing space was recorded, then loaded
C8_WitnessLoad ==
  /\ RecordedThenLoaded
  /\ Sanitized(calls.before.path) # calls.before.path
  /\ calls.loaded # <<>>

NoDuplicates(s) == \A i, j \in 1..Len(s) : i # j => s[i] # s[j]

\* C9: after every successful record, whatever the file held before, the
\* file holds at most 20 lines, no line twice, no blank line, and each line
\* is an entry as a load returns it.
C9_BoundedDistinctNonBlank ==
  calls.call.op = "record" /\ calls.call.ok =>
    /\ recent.exists
    /\ Len(lines(recent.content)) <= RECENT_LIMIT_DEFAULT
    /\ NoDuplicates(lines(recent.content))
    /\ \A i \in 1..Len(lines(recent.content)) : trim(lines(recent.content)[i]) # <<>>
    /\ lines(recent.content) = PersistedList

\* the first record into a file that was not written by this program leaves
\* a full list
C9_Witness ==
  /\ calls.call.op = "record" /\ calls.call.ok /\ calls.before.op = "none"
  /\ ~pristine
  /\ Len(PersistedList) = RECENT_LIMIT_DEFAULT

RECURSIVE MostRecentFirst(_)
\* the distinct values of vs, the one recorded last first
MostRecentFirst(vs) ==
  IF vs = <<>> THEN <<>>
  ELSE <<Last(vs)>> \o SelectSeq(MostRecentFirst(Front(vs)), LAMBDA x : x # Last(vs))

\* the records since the last one whose read of the file failed, that one
\* included
SinceReadFailure(h) ==
  LET failed == { i \in 1..Len(h) : ~h[i].read_ok } IN
  IF failed = {} THEN h
  ELSE SubSeq(h, CHOOSE i \in failed : \A j \in failed : j <= i, Len(h))

\* C10 as claimed: from an empty or missing file and successful records
\* only, the list is the distinct recorded paths, most recently recorded
\* first, cut to 20.
C10_MostRecentRecorded ==
  pristine =>
    PersistedList =
      truncate(MostRecentFirst([i \in 1..Len(history) |-> history[i].path]),
               RECENT_LIMIT_DEFAULT)

\* C10: from an empty or missing file and successful records only, the list
\* is the distinct sanitized paths recorded since the last record whose read
\* of the file failed, most recently recorded first, cut to 20.
C10_MostRecentSanitized ==
  pristine =>
    PersistedList =
      truncate(MostRecentFirst([i \in 1..Len(SinceReadFailure(history)) |->
                                  Sanitized(SinceReadFailure(history)[i].path)]),
               RECENT_LIMIT_DEFAULT)

\* the 21st distinct path was recorded and the least recently recorded one
\* is gone
C10_Witness ==
  /\ pristine /\ Len(history) = RECENT_LIMIT_DEFAULT + 1
  /\ \A i \in 1..Len(history) : history[i].read_ok
  /\ Len(PersistedList) = RECENT_LIMIT_DEFAULT
  /\ PathNo(1) \notin Range(PersistedList)
  /\ PersistedList[RECENT_LIMIT_DEFAULT] = PathNo(2)

-----------------------------------------------------------------------------
(* PathNormalizer *)

FileScheme == <<"f","i","l","e",":","/","/">>
LocalhostSlash == <<"l","o","c","a","l","h","o","s","t","/">>

\* u8::is_ascii_alphabetic
is_ascii_alphabetic(c) == c \in Range(Upper) \cup Range(Lower)

\* lines 509-515: a drive letter after the root slash
looks_like_windows_drive(bytes) ==
  Len(bytes) >= 2 /\ is_ascii_alphabetic(bytes[1]) /\ bytes[2] = ":"

\* Option::unwrap_or of a strip_prefix
unwrap_or(stripped, default) == IF stripped.ok THEN stripped.rel ELSE default

\* the drive-letter test left out: the root slash is always kept
normalize_keeping_root_slash(raw) ==
  LET value == trim(raw)
      without_scheme == strip_prefix(value, FileScheme)
  IN  IF ~without_scheme.ok THEN value
      ELSE unwrap_or(strip_prefix(without_scheme.rel, LocalhostSlash),
                     without_scheme.rel)

\* normalize_file_url_to_path
normalize_file_url_to_path(raw) ==
  LET value == trim(raw)
      without_scheme == strip_prefix(value, FileScheme)
  IN  IF ~without_scheme.ok THEN value
      ELSE LET without_host ==
                 unwrap_or(strip_prefix(without_scheme.rel, LocalhostSlash),
                           without_scheme.rel)
               without_root_slash == strip_prefix(without_host, <<"/">>)
           IN  IF /\ without_root_slash.ok
                  /\ looks_like_windows_drive(without_root_slash.rel)
               THEN without_root_slash.rel
               ELSE without_host

\* the raw strings handed to the normalizer: with and without surrounding
\* white space, a scheme, a host, and a POSIX or drive-letter path
RawLead == { <<>>, <<" ">>, <<"\t">> }
RawScheme == { <<>>, FileScheme, <<"f","i","l","e",":","/">>,
               <<"F","I","L","E",":","/","/">> }
RawHost == { <<>>, <<"l","o","c","a","l","h","o","s","t">> }
RawPath == { <<>>, <<"/">>, <<"/","h","o","m","e","/","a","%","2","0","b">>,
             <<"h","o","m","e">>, <<"/","C",":","/","x">>, <<"C",":","/","x">>,
             <<"/","c",":">>, <<"/","1",":","/","x">>, <<"/","c">> }
RawTrail == { <<>>, <<" ">> }

RawInputs ==
  { l \o sc \o h \o p \o t :
      l \in RawLead, sc \in RawScheme, h \in RawHost, p \in RawPath, t \in RawTrail }

NormalizeInit ==
  /\ pure \in { [fn |-> "normalize", arg |-> raw, done |-> FALSE, ret |-> <<>>] :
                raw \in RawInputs }
  /\ disk = Idle /\ saver = Idle /\ reader = Idle
  /\ config = Idle /\ request = Idle

\* a call of normalize_file_url_to_path
Normalize ==
  /\ pure.fn = "normalize" /\ ~pure.done
  /\ pure' = [pure EXCEPT !.done = TRUE,
                          !.ret = normalize_file_url_to_path(pure.arg)]
  /\ UNCHANGED <<scanVars, recentVars, disk, saver, reader, config, request>>

NormalizeSpecInit == ScanIdle /\ RecentIdle /\ NormalizeInit

NormalizeSpec == NormalizeSpecInit /\ [][Normalize]_vars

-----------------------------------------------------------------------------
(* Properties of the normalizer *)

Normalized == pure.fn = "normalize" /\ pure.done

starts_with(s, prefix) == strip_prefix(s, prefix).ok

\* "/" followed by one ASCII letter and ":"
DriveAfterSlash(p) ==
  Len(p) >= 3 /\ p[1] = "/" /\ is_ascii_alphabetic(p[2]) /\ p[3] = ":"

\* a POSIX absolute path that is not "/" followed by a drive-letter pattern
PosixAbsolute(p) == p # <<>> /\ p[1] = "/" /\ ~DriveAfterSlash(p)

\* what the normalizer is to return for the string v
NormalForm(v, ret) ==
  /\ ~starts_with(v, FileScheme) => ret = v
  /\ \A p \in RawPath, t \in RawTrail :
       /\ PosixAbsolute(p) /\ v = FileScheme \o p \o t => ret = p \o t
       /\ DriveAfterSlash(p) /\ v = FileScheme \o p \o t => ret = Tail(p) \o t

C16_WitnessDrive ==
  /\ Normalized
  /\ pure.arg = <<" ">> \o FileScheme \o <<"/","C",":","/","x">>
  /\ pure.ret = <<"C",":","/","x">>

\* C17: with the host segment, file://localhost followed by P, the result is
\* that of file:// followed by P: P with its leading "/" for a POSIX absolute
\* path, P without it for "/" and a drive-letter pattern.
C17_LocalhostAsNoHost ==
  Normalized =>
    \A p \in RawPath, t \in RawTrail :
      /\ p # <<>> /\ p[1] = "/"
      /\ trim(pure.arg) = FileScheme \o <<"l","o","c","a","l","h","o","s","t">> \o p \o t
      => /\ pure.ret = normalize_file_url_to_path(FileScheme \o p \o t)
         /\ pure.ret = IF DriveAfterSlash(p) THEN Tail(p) \o t ELSE p \o t

\* with the host segment a drive-letter path comes out as without it
C17_LocalhostDrive ==
  Normalized =>
    \A p \in RawPath :
      /\ DriveAfterSlash(p)
      /\ pure.arg = FileScheme \o <<"l","o","c","a","l","h","o","s","t">> \o p
      => pure.ret = Tail(p)

-----------------------------------------------------------------------------
(* FileClassifier on its own *)

\* the upper-case form of ASCII text
to_uppercase(s) ==
  [ i \in 1..Len(s) |->
      IF s[i] \in Range(Lower) THEN Upper[IndexIn(Lower, s[i])] ELSE s[i] ]

\* the first letter in upper case
capitalized(s) == IF s = <<>> THEN s ELSE to_uppercase(<<Head(s)>>) \o Tail(s)

\* what follows the stem of a file name: the extensions of the match of
\* categorize_file, and others
ListedEndings ==
  { <<"p","n","g">>, <<"j","p","g">>, <<"j","p","e","g">>, <<"g","i","f">>,
    <<"w","e","b","p">>, <<"m","p","4">>, <<"w","e","b","m">>,
    <<"o","g","v">>, <<"m","4","v">>, <<"m","p","3">>, <<"w","a","v">>,
    <<"m","4","a">>, <<"o","g","g">>, <<"o","g","a">>, <<"f","l","a","c">>,
    <<"a","a","c">>, <<"m","d">>, <<"m","a","r","k","d","o","w","n">>,
    <<"d","r","a","w","i","o">>, <<"p","d","f">>, <<"d","o","c","x">>,
    <<"x","l","s","x">>, <<"t","x","t">>, <<"p","p","t","x">> }

OtherEndings ==
  { <<"e","x","e">>, <<"m","d","x">>, <<"m","m">>, <<"p","p","t">>, <<"m">>,
    <<"m","m",".","m","d">>, <<"p","p","t",".","m","d">>,
    <<"m","m",".","m","d",".","t","x","t">>, <<"m","d",".","p","p","t">>,
    <<"t","a","r",".","g","z">> }

NameStems == { <<>>, <<"a">>, <<"x",".","m","d">>, <<"n","o","t","e",".","m","m">> }

\* file names: a stem, a ".", an ending in lower, upper or mixed case; names
\* with no "." at all, and a name that ends with a "."
FileNames ==
  { st \o <<".">> \o e :
      st \in NameStems,
      e \in UNION { {x, to_uppercase(x), capitalized(x)} :
                    x \in ListedEndings \cup OtherEndings } }
  \cup { <<"R","E","A","D","M","E">>, <<"m","d">>, <<"m","m","m","d">>,
         <<"a",".","m","d",".">>, <<"p","d","f">> }

\* the paths classified: a file name under a directory, or no file name
ClassifiedPaths == { <<"r", name>> : name \in FileNames } \cup { <<>> }

ClassifyInit ==
  /\ pure \in { [fn |-> "classify", arg |-> path, done |-> FALSE, ret |-> None] :
                path \in ClassifiedPaths }
  /\ disk = Idle /\ saver = Idle /\ reader = Idle
  /\ config = Idle /\ request = Idle

\* a call of categorize_file
Classify ==
  /\ pure.fn = "classify" /\ ~pure.done
  /\ pure' = [pure EXCEPT !.done = TRUE, !.ret = categorize_file(pure.arg)]
  /\ UNCHANGED <<scanVars, recentVars, disk, saver, reader, config, request>>

ClassifySpecInit == ScanIdle /\ RecentIdle /\ ClassifyInit

ClassifySpec == ClassifySpecInit /\ [][Classify]_vars

-----------------------------------------------------------------------------
(* Properties of the classifier *)

Classified == pure.fn = "classify" /\ pure.done /\ pure.arg # <<>>

\* the categories and their extensions, as documented
DocumentedExtensions ==
  [ images |-> { <<"p","n","g">>, <<"j","p","g">>, <<"j","p","e","g">>, <<"g","i","f">>, <<"w","e","b","p">> },
    video |-> { <<"m","p","4">>, <<"w","e","b","m">>, <<"o","g","v">>, <<"m","4","v">> },
    audio |-> { <<"m","p","3">>, <<"w","a","v">>, <<"m","4","a">>, <<"o","g","g">>, <<"o","g","a">>, <<"f","l","a","c">>, <<"a","a","c">> },
    markdown |-> { <<"m","d">>, <<"m","a","r","k","d","o","w","n">> },
    drawio |-> { <<"d","r","a","w","i","o">> },
    pdf |-> { <<"p","d","f">> },
    word |-> { <<"d","o","c","x">> },
    excel |-> { <<"x","l","s","x">> },
    text |-> { <<"t","x","t">> },
    slides |-> { <<"p","p","t","x">> } ]

\* the extension of a file name: what follows its last ".", when that "." is
\* not the first character of the name
NameHasExtension(name) ==
  \E i \in 2..Len(name) : name[i] = "."

NameExtension(name) ==
  LET i == CHOOSE k \in 2..Len(name) :
             name[k] = "." /\ \A j \in (k + 1)..Len(name) : name[j] # "."
  IN  SubSeq(name, i + 1, Len(name))

DocumentedCategory(name) ==
  LET lower == to_lowercase(name) IN
  IF ends_with(lower, <<".","m","m",".","m","d">>) THEN "mindmap"
  ELSE IF ends_with(lower, <<".","p","p","t",".","m","d">>) THEN "marpit"
  ELSE IF ~NameHasExtension(name) THEN "none"
  ELSE LET ext == NameExtension(lower)
           cats == { c \in DOMAIN DocumentedExtensions :
                       ext \in DocumentedExtensions[c] }
       IN  IF cats = {} THEN "none" ELSE CHOOSE c \in cats : TRUE

\* C18: whatever the case of the name, a name ending in .mm.md is a mindmap
\* and one ending in .ppt.md is marpit before any other rule; otherwise the
\* category is the documented one of the extension, and none for any other
\* extension and for a name without extension.
C18_DocumentedCategory ==
  Classified => pure.ret = DocumentedCategory(Last(pure.arg))

C18_Witness ==
  /\ Classified
  /\ pure.arg = <<"r", <<"x",".","m","d",".","M","M",".","M","D">> >>
  /\ pure.ret = "mindmap"

C18_WitnessListed ==
  /\ Classified
  /\ pure.arg = <<"r", <<"a",".","F","l","a","c">> >>
  /\ pure.ret = "audio"

C18_WitnessNone ==
  /\ Classified
  /\ pure.arg \in { <<"r", <<".","m","d">> >>, <<"r", <<"R","E","A","D","M","E">> >> }
  /\ pure.ret = "none"

-----------------------------------------------------------------------------
(* ConfigStore *)

\* Option<String> and Option<u32>
NoString == [some |-> FALSE, value |-> ""]
SomeString(v) == [some |-> TRUE, value |-> v]
NoNumber == [some |-> FALSE, value |-> <<>>]
SomeNumber(n) == [some |-> TRUE, value |-> n]

\* A number is the sequence of its decimal digits, most significant first,
\* as serde_json reads and writes it.
Eighteen == <<"1","8">>

\* u32::MAX, and the number after it
U32Max == <<"4","2","9","4","9","6","7","2","9","5">>
U32MaxPlusOne == <<"4","2","9","4","9","6","7","2","9","6">>

\* the number fits u32: no sign, and not above u32::MAX
fits_u32(n) ==
  /\ n # <<>> /\ Head(n) # "-"
  /\ Len(n) < Len(U32Max) \/ (Len(n) = Len(U32Max) /\ ~StrLess(U32Max, n))

\* AppConfig, and AppConfig::default()
AppConfig(language, font_size_px) ==
  [language |-> language, font_size_px |-> font_size_px]

DefaultConfig == AppConfig(NoString, NoNumber)

\* A JSON document is the sequence of the members of its object, each a key
\* with a string, a number or null; a text that is no JSON object is garbage.
Member(key, is, str, num) == [key |-> key, is |-> is, str |-> str, num |-> num]

Json(members) == [kind |-> "json", members |-> members]
BlankText == [kind |-> "blank", members |-> <<>>]
Garbage == [kind |-> "garbage", members |-> <<>>]

\* serde_json::to_string_pretty of an AppConfig: language, then fontSizePx,
\* a member left out when the field is None
to_string_pretty(cfg) ==
  Json((IF cfg.language.some
        THEN <<Member("language", "string", cfg.language.value, <<>>)>> ELSE <<>>)
       \o
       (IF cfg.font_size_px.some
        THEN <<Member("fontSizePx", "number", "", cfg.font_size_px.value)>>
        ELSE <<>>))

ParseError == [ok |-> FALSE, config |-> DefaultConfig]

RECURSIVE parse_members(_, _, _)
\* the derived Deserialize of AppConfig: a known key twice is an error, a
\* value of the wrong type or a number outside u32 is an error, null is
\* None, an unknown key is skipped
parse_members(members, cfg, seen) ==
  IF members = <<>> THEN [ok |-> TRUE, config |-> cfg]
  ELSE LET m == Head(members) IN
       IF m.key = "language"
       THEN IF "language" \in seen \/ m.is = "number" THEN ParseError
            ELSE parse_members(Tail(members),
                   [cfg EXCEPT !.language =
                      IF m.is = "null" THEN NoString ELSE SomeString(m.str)],
                   seen \cup {"language"})
       ELSE IF m.key = "fontSizePx"
       THEN IF \/ "fontSizePx" \in seen
               \/ m.is = "string"
               \/ (m.is = "number" /\ ~fits_u32(m.num))
            THEN ParseError
            ELSE parse_members(Tail(members),
                   [cfg EXCEPT !.font_size_px =
                      IF m.is = "null" THEN NoNumber ELSE SomeNumber(m.num)],
                   seen \cup {"fontSizePx"})
       ELSE parse_members(Tail(members), cfg, seen)

\* serde_json::from_str::<AppConfig>
from_str(text) ==
  IF text.kind = "json" THEN parse_members(text.members, DefaultConfig, {})
  ELSE ParseError

\* load_config_from_disk: the default for a missing or blank file, Err
\* without a home directory, when the read fails and when the text does not
\* parse
load_config_from_disk(file, io) ==
  IF io.no_home THEN ParseError
  ELSE IF ~file.exists THEN [ok |-> TRUE, config |-> DefaultConfig]
  ELSE IF io.read_fails THEN ParseError
  ELSE IF file.content.kind = "blank" THEN [ok |-> TRUE, config |-> DefaultConfig]
  ELSE from_str(file.content)

\* a write that was cut short leaves a text that is no JSON document
Truncated == FileWith(Garbage)

\* save_config_to_disk on the files fs = [file, tmp] under the I/O results io
save_config_to_disk(fs, cfg, io) ==
  LET content == to_string_pretty(cfg)
      failed(t) == [ok |-> FALSE, file |-> fs.file, tmp |-> t]
  IN
  IF io.no_home \/ io.mkdir_fails THEN failed(fs.tmp)
  ELSE IF io.tmp = "create" THEN failed(fs.tmp)
  ELSE IF io.tmp = "write" THEN failed(Truncated)
  ELSE IF ~io.rename_fails
       THEN [ok |-> TRUE, file |-> FileWith(content), tmp |-> Missing]
  ELSE LET dest == IF io.remove_fails THEN fs.file ELSE Missing IN
       IF ~io.retry_fails
       THEN [ok |-> TRUE, file |-> FileWith(content), tmp |-> Missing]
       ELSE [ok |-> FALSE, file |-> dest, tmp |-> FileWith(content)]

\* Result::unwrap_or_default of a loaded config
config_or_default(loaded) == IF loaded.ok THEN loaded.config ELSE DefaultConfig

\* lines 678-684 of save_app_config: the fields set in partial replace those
\* of the current config
merged(current, partial) ==
  [language |-> IF partial.language.some THEN partial.language
                ELSE current.language,
   font_size_px |-> IF partial.font_size_px.some THEN partial.font_size_px
                    ELSE current.font_size_px]

\* save_app_config returning the error of a failed load (`?` in place of
\* unwrap_or_default)
save_loaded_or_fail(fs, partial, loaded, io) ==
  IF loaded.ok
  THEN [read_ok |-> TRUE]
       @@ save_config_to_disk(fs, merged(loaded.config, partial), io)
  ELSE [read_ok |-> FALSE, ok |-> FALSE, file |-> fs.file, tmp |-> fs.tmp]

\* save_app_config, with the config as loaded
save_loaded(fs, partial, loaded, io) ==
  [read_ok |-> loaded.ok]
  @@ save_config_to_disk(fs, merged(config_or_default(loaded), partial), io)

\* save_app_config
save_app_config(fs, partial, io) ==
  save_loaded(fs, partial, load_config_from_disk(fs.file, io), io)

\* load_app_config
load_app_config(file, io) == load_config_from_disk(file, io)

Languages == { NoString, SomeString("en"), SomeString("") }
FontSizes == { NoNumber, SomeNumber(Eighteen), SomeNumber(U32Max) }

\* the configs the front end saves
Configs == { AppConfig(l, f) : l \in Languages, f \in FontSizes }

\* config files this program did not write: blank, no JSON, a null, an
\* unknown key, a font size outside u32, a key twice
ForeignTexts ==
  { BlankText, Garbage,
    Json(<<Member("language", "null", "", <<>>),
           Member("fontSizePx", "number", "", <<"1","6">>)>>),
    Json(<<Member("theme", "string", "dark", <<>>),
           Member("language", "string", "en", <<>>)>>),
    Json(<<Member("fontSizePx", "number", "", U32MaxPlusOne)>>),
    Json(<<Member("fontSizePx", "number", "", <<"-","1">>)>>),
    Json(<<Member("language", "string", "en", <<>>),
           Member("language", "string", "zh-CN", <<>>)>>) }

NoConfigCall ==
  [op |-> "none", ok |-> TRUE, read_ok |-> TRUE, partial |-> DefaultConfig,
   loaded |-> DefaultConfig, prior |-> ParseError, io |-> NoIo]

ConfigInit ==
  /\ config \in
       { [fn |-> "config", file |-> f, tmp |-> Missing, ops |-> 0,
          call |-> NoConfigCall, before |-> NoConfigCall] :
         f \in {Missing}
               \cup { FileWith(to_string_pretty(c)) : c \in Configs }
               \cup { FileWith(t) : t \in ForeignTexts } }
  /\ disk = Idle /\ saver = Idle /\ reader = Idle
  /\ request = Idle /\ pure = Idle

\* a call of save_app_config(partial); prior is what the file held before,
\* io the results of the call's file operations
SaveAppConfig ==
  /\ config.fn = "config" /\ config.ops < MaxOps
  /\ \E partial \in Configs, io \in IoOutcomes :
       \E r \in {save_app_config([file |-> config.file, tmp |-> config.tmp],
                                 partial, io)} :
         config' = [config EXCEPT
                      !.file = r.file, !.tmp = r.tmp, !.ops = @ + 1,
                      !.before = config.call,
                      !.call = [op |-> "save", ok |-> r.ok, read_ok |-> r.read_ok,
                                partial |-> partial, loaded |-> DefaultConfig,
                                prior |-> load_config_from_disk(config.file, NoIo),
                                io |-> io]]
  /\ UNCHANGED <<scanVars, recentVars, disk, saver, reader, request, pure>>

\* a call of load_app_config()
LoadAppConfig ==
  /\ config.fn = "config" /\ config.ops < MaxOps
  /\ \E io \in ReadOutcomes :
       \E r \in {load_app_config(config.file, io)} :
         config' = [config EXCEPT
                      !.ops = @ + 1,
                      !.before = config.call,
                      !.call = [op |-> "load", ok |-> r.ok, read_ok |-> r.ok,
                                partial |-> DefaultConfig, loaded |-> r.config,
                                prior |-> ParseError, io |-> io]]
  /\ UNCHANGED <<scanVars, recentVars, disk, saver, reader, request, pure>>

ConfigNext == SaveAppConfig \/ LoadAppConfig

ConfigSpecInit == ScanIdle /\ RecentIdle /\ ConfigInit

ConfigSpec == ConfigSpecInit /\ [][ConfigNext]_vars

-----------------------------------------------------------------------------
(* Properties of the config store *)

\* load() has returned a config, right after a successful save(partial) on
\* a well-formed config
SavedThenLoaded ==
  /\ config.fn = "config"
  /\ config.call.op = "load" /\ config.call.ok
  /\ config.before.op = "save" /\ config.before.ok
  /\ config.before.prior.ok

\* every field set in partial has partial's value, every other field the
\* value it had in prior
FieldsMerged(loaded, prior, partial) ==
  /\ loaded.language =
       IF partial.language.some THEN partial.language ELSE prior.language
  /\ loaded.font_size_px =
       IF partial.font_size_px.some THEN partial.font_size_px
       ELSE prior.font_size_px

\* C11: after a successful save(partial) on a well-formed config, load()
\* returns partial's value for every field set in partial and the value
\* from before the save for every field absent from partial.
C11_SaveKeepsOtherFields ==
  SavedThenLoaded =>
    FieldsMerged(config.call.loaded, config.before.prior.config,
                 config.before.partial)

\* the same when the save could read the config file
C11_SaveKeepsWhenRead ==
  SavedThenLoaded /\ config.before.read_ok =>
    FieldsMerged(config.call.loaded, config.before.prior.config,
                 config.before.partial)

\* every field set in partial is loaded with partial's value
C11_RoundTrip ==
  SavedThenLoaded =>
    /\ config.before.partial.language.some
         => config.call.loaded.language = config.before.partial.language
    /\ config.before.partial.font_size_px.some
         => config.call.loaded.font_size_px = config.before.partial.font_size_px

C11_WitnessKept ==
  /\ SavedThenLoaded /\ config.before.read_ok
  /\ config.before.partial = AppConfig(NoString, SomeNumber(Eighteen))
  /\ config.before.prior.config = AppConfig(SomeString("en"), SomeNumber(U32Max))
  /\ config.call.loaded = AppConfig(SomeString("en"), SomeNumber(Eighteen))

\* save_app_config(partial) was called with a home directory and could not
\* load the config: the file exists and reading it failed, or its text is
\* neither blank nor an AppConfig
UnreadableSave(call) ==
  /\ call.op = "save" /\ ~call.io.no_home
  /\ ~call.read_ok

\* the config file could not be read / was read and did not parse
ReadFailed(call) == UnreadableSave(call) /\ call.io.read_fails
Malformed(call) == UnreadableSave(call) /\ ~call.io.read_fails

\* the steps of save_config_to_disk succeed: the directory, the temp file,
\* and the rename or its retry
WriteSucceeds(io) ==
  /\ ~io.mkdir_fails /\ io.tmp = "ok"
  /\ io.rename_fails => ~io.retry_fails

\* the load succeeds: there is a home directory and the read does not fail
ReadSucceeds(io) == ~io.no_home /\ ~io.read_fails

\* C21: save_app_config does not fail because the config file is unreadable
\* or malformed: it fails only when a step of the write fails; when it
\* succeeds the file holds partial merged into the all-unset default, and a
\* load() afterwards succeeds whenever its own read does and returns
\* exactly partial, whatever the file held before.
C21_UnreadableConfigReplaced ==
  /\ (config.fn = "config" /\ UnreadableSave(config.call)) =>
       /\ config.call.ok <=> WriteSucceeds(config.call.io)
       /\ config.call.ok =>
            /\ config.file = FileWith(to_string_pretty(config.call.partial))
            /\ load_app_config(config.file, NoIo)
                 = [ok |-> TRUE, config |-> config.call.partial]
  /\ (/\ config.fn = "config" /\ config.call.op = "load"
      /\ UnreadableSave(config.before) /\ config.before.ok) =>
       /\ config.call.ok <=> ReadSucceeds(config.call.io)
       /\ config.call.ok => config.call.loaded = config.before.partial

\* a stored language is discarded by a save that sets the font size only,
\* the read of the well-formed file having failed
C21_Witness ==
  /\ config.fn = "config" /\ config.call.op = "load" /\ config.call.ok
  /\ ReadFailed(config.before) /\ config.before.ok
  /\ config.before.prior
       = [ok |-> TRUE, config |-> AppConfig(SomeString("en"), SomeNumber(U32Max))]
  /\ config.before.partial = AppConfig(NoString, SomeNumber(Eighteen))
  /\ config.call.loaded = AppConfig(NoString, SomeNumber(Eighteen))

\* the same on a file that does not parse, the first rename having failed
C21_WitnessMalformed ==
  /\ config.fn = "config" /\ config.call.op = "load" /\ config.call.ok
  /\ Malformed(config.before) /\ config.before.ok
  /\ ~config.before.prior.ok
  /\ config.before.io.rename_fails
  /\ config.before.partial = AppConfig(SomeString(""), NoNumber)
  /\ config.call.loaded = AppConfig(SomeString(""), NoNumber)

\* the save fails on an unreadable config, by its write
C21_WitnessWriteFails ==
  /\ config.fn = "config" /\ UnreadableSave(config.call)
  /\ ~config.call.ok /\ config.call.io.tmp = "write"

-----------------------------------------------------------------------------
(* Durable save, system call by system call                                *)
(*                                                                         *)
(* save_recent_to_disk and save_config_to_disk are the same sequence of    *)
(* system calls on a destination and its sibling temp path.  A file is an  *)
(* inode, a path is a name bound to an inode: an open file follows its     *)
(* inode when the name is bound anew or unbound.  A content is a sequence  *)
(* of chunks, each written by one write call.                              *)

MaxFaults == 2

Savers == {"p1", "p2"}

NoInode == "none"

\* the content persisted before, and the full content each invocation writes
OldContent == <<"old-1", "old-2">>
ContentOf(p) == IF p = "p1" THEN <<"p1-1", "p1-2">> ELSE <<"p2-1", "p2-2">>

Hole == "hole"

\* write(2) of one chunk at the position of the file descriptor
write_at(content, offset, chunk) ==
  IF Len(content) > offset
  THEN [content EXCEPT ![offset + 1] = chunk]
  ELSE content \o [i \in 1..(offset - Len(content)) |-> Hole] \o <<chunk>>

NotCalled ==
  [pc |-> "idle", fd |-> NoInode, offset |-> 0, log |-> <<>>, ret |-> "none",
   dest_before |-> NoInode]

NotReading == [pc |-> "idle", fd |-> NoInode, seen |-> "nothing", content |-> <<>>]

SaveInit ==
  /\ disk \in { [fn |-> "disk",
                 inodes |-> [old |-> OldContent, p1 |-> <<>>, p2 |-> <<>>],
                 dest |-> d, tmp |-> NoInode, faults |-> 0] :
                d \in {NoInode, "old"} }
  /\ saver = [fn |-> "saver", p1 |-> NotCalled, p2 |-> NotCalled]
  /\ reader = [fn |-> "reader"] @@ NotReading
  /\ config = Idle /\ request = Idle /\ pure = Idle

saveFrame == <<scanVars, recentVars, config, request, pure>>

\* a system call may fail for a reason of its own, MaxFaults times in all
MayFail == disk.faults < MaxFaults

Failed(d) == [d EXCEPT !.faults = @ + 1]

Returned(proc, ret) == [proc EXCEPT !.pc = "done", !.ret = ret]

Logged(proc, call) == [proc EXCEPT !.log = Append(@, call)]

\* an invocation of the save begins; dest_before notes what the destination
\* is bound to at the call
CallSave(p) ==
  /\ saver.fn = "saver" /\ saver[p].pc = "idle"
  /\ saver' = [saver EXCEPT ![p] = [@ EXCEPT !.pc = "prepare",
                                             !.dest_before = disk.dest]]
  /\ UNCHANGED <<disk, reader, saveFrame>>

\* recent_file_path()? and create_dir_all(parent)?
Prepare(p) ==
  /\ saver.fn = "saver" /\ saver[p].pc = "prepare"
  /\ \/ /\ saver' = [saver EXCEPT ![p] = [@ EXCEPT !.pc = "open"]]
        /\ UNCHANGED disk
     \/ /\ MayFail
        /\ saver' = [saver EXCEPT ![p] = Returned(@, "err")]
        /\ disk' = Failed(disk)
  /\ UNCHANGED <<reader, saveFrame>>

\* std::fs::write, its open: the temp file is created, or truncated when the
\* name is bound
OpenTmp(p) ==
  /\ saver.fn = "saver" /\ saver[p].pc = "open"
  /\ \/ LET inode == IF disk.tmp = NoInode THEN p ELSE disk.tmp IN
        /\ disk' = [disk EXCEPT !.tmp = inode, !.inodes[inode] = <<>>]
        /\ saver' = [saver EXCEPT ![p] = [@ EXCEPT !.pc = "write",
                                                   !.fd = inode, !.offset = 0]]
     \/ /\ MayFail
        /\ saver' = [saver EXCEPT ![p] = Returned(@, "err")]
        /\ disk' = Failed(disk)
  /\ UNCHANGED <<reader, saveFrame>>

\* std::fs::write, its write_all: one chunk after the other through the
\* file descriptor
WriteTmp(p) ==
  /\ saver.fn = "saver" /\ saver[p].pc = "write"
  /\ \/ LET proc == saver[p]
            chunk == ContentOf(p)[proc.offset + 1]
        IN
        /\ disk' = [disk EXCEPT !.inodes[proc.fd] =
                                   write_at(@, proc.offset, chunk)]
        /\ saver' = [saver EXCEPT ![p] =
                       [@ EXCEPT !.offset = @ + 1,
                                 !.pc = IF proc.offset + 1 = Len(ContentOf(p))
                                        THEN "rename" ELSE "write"]]
     \/ /\ MayFail
        /\ saver' = [saver EXCEPT ![p] = Returned(@, "err")]
        /\ disk' = Failed(disk)
  /\ UNCHANGED <<reader, saveFrame>>

\* rename(tmp, dest) on the disk d: the destination is bound to the inode of
\* the temp path, the temp path is unbound
renamed(d) == [d EXCEPT !.dest = d.tmp, !.tmp = NoInode]

\* the first std::fs::rename(&tmp_path, &path): it fails when the temp path
\* is unbound, and may fail for a reason of its own
RenameTmp(p) ==
  /\ saver.fn = "saver" /\ saver[p].pc = "rename"
  /\ \/ /\ disk.tmp # NoInode
        /\ disk' = renamed(disk)
        /\ saver' = [saver EXCEPT ![p] = Returned(Logged(@, "rename:ok"), "ok")]
     \/ /\ disk.tmp = NoInode
        /\ saver' = [saver EXCEPT ![p] =
                       [Logged(@, "rename:err") EXCEPT !.pc = "remove"]]
        /\ UNCHANGED disk
     \/ /\ disk.tmp # NoInode /\ MayFail
        /\ saver' = [saver EXCEPT ![p] =
                       [Logged(@, "rename:err") EXCEPT !.pc = "remove"]]
        /\ disk' = Failed(disk)
  /\ UNCHANGED <<reader, saveFrame>>

\* the removal done although the first rename succeeded
RemoveDestAlways(p) ==
  /\ saver.fn = "saver" /\ saver[p].pc \in {"remove", "rename"}
  /\ disk.dest # NoInode
  /\ disk' = [disk EXCEPT !.dest = NoInode]
  /\ saver' = [saver EXCEPT ![p] =
                 [Logged(@, "remove:ok") EXCEPT !.pc = "retry"]]
  /\ UNCHANGED <<reader, saveFrame>>

\* let _ = std::fs::remove_file(&path): whatever it returns, the retry
\* follows
RemoveDest(p) ==
  /\ saver.fn = "saver" /\ saver[p].pc = "remove"
  /\ \/ /\ disk.dest # NoInode
        /\ disk' = [disk EXCEPT !.dest = NoInode]
        /\ saver' = [saver EXCEPT ![p] =
                       [Logged(@, "remove:ok") EXCEPT !.pc = "retry"]]
     \/ /\ disk.dest = NoInode
        /\ saver' = [saver EXCEPT ![p] =
                       [Logged(@, "remove:absent") EXCEPT !.pc = "retry"]]
        /\ UNCHANGED disk
     \/ /\ disk.dest # NoInode /\ MayFail
        /\ saver' = [saver EXCEPT ![p] =
                       [Logged(@, "remove:err") EXCEPT !.pc = "retry"]]
        /\ disk' = Failed(disk)
  /\ UNCHANGED <<reader, saveFrame>>

\* the second std::fs::rename(&tmp_path, &path), its error returned
RetryRename(p) ==
  /\ saver.fn = "saver" /\ saver[p].pc = "retry"
  /\ \/ /\ disk.tmp # NoInode
        /\ disk' = renamed(disk)
        /\ saver' = [saver EXCEPT ![p] = Returned(Logged(@, "rename:ok"), "ok")]
     \/ /\ disk.tmp = NoInode
        /\ saver' = [saver EXCEPT ![p] = Returned(Logged(@, "rename:err"), "err")]
        /\ UNCHANGED disk
     \/ /\ disk.tmp # NoInode /\ MayFail
        /\ saver' = [saver EXCEPT ![p] = Returned(Logged(@, "rename:err"), "err")]
        /\ disk' = Failed(disk)
  /\ UNCHANGED <<reader, saveFrame>>

\* read_to_string(&path) of a concurrent load, its open: NotFound when the
\* destination is unbound
ReaderOpen ==
  /\ reader.fn = "reader" /\ reader.pc = "idle"
  /\ reader' = IF disk.dest = NoInode
               THEN [reader EXCEPT !.pc = "done", !.seen = "missing"]
               ELSE [reader EXCEPT !.pc = "read", !.fd = disk.dest]
  /\ UNCHANGED <<disk, saver, saveFrame>>

\* read_to_string(&path), its read: the content of the open file as it is
ReaderRead ==
  /\ reader.fn = "reader" /\ reader.pc = "read"
  /\ reader' = [reader EXCEPT !.pc = "done", !.seen = "content",
                              !.content = disk.inodes[reader.fd]]
  /\ UNCHANGED <<disk, saver, saveFrame>>

SaveNext ==
  \/ \E p \in Savers : CallSave(p)
  \/ \E p \in Savers : Prepare(p)
  \/ \E p \in Savers : OpenTmp(p)
  \/ \E p \in Savers : WriteTmp(p)
  \/ \E p \in Savers : RenameTmp(p)
  \/ \E p \in Savers : RemoveDest(p)
  \/ \E p \in Savers : RetryRename(p)
  \/ ReaderOpen
  \/ ReaderRead

SaveSpecInit == ScanIdle /\ RecentIdle /\ SaveInit

SaveSpec == SaveSpecInit /\ [][SaveNext]_vars

-----------------------------------------------------------------------------
(* Properties of the durable save *)

Other(p) == CHOOSE q \in Savers : q # p

\* only the invocation p of the save has been called
Alone(p) == saver.fn = "saver" /\ saver[Other(p)].pc = "idle"

\* what the destination held before the one save: bound or not
BoundBefore ==
  IF saver["p1"].pc = "idle" THEN disk.dest # NoInode
  ELSE saver["p1"].dest_before # NoInode

\* C12: a read of the destination that runs along one save observes the
\* full content persisted before the save or the full new content, at every
\* interleaving.
C12_ReaderSeesOldOrNew ==
  Alone("p1") /\ reader.pc = "done" =>
    /\ reader.seen = "content" => reader.content \in {OldContent, ContentOf("p1")}
    /\ reader.seen = "missing" => ~BoundBefore

\* along one save, what a reader reads is never a part of a content
C12_NeverPartial ==
  Alone("p1") /\ reader.pc = "done" /\ reader.seen = "content" =>
    reader.content \in {OldContent, ContentOf("p1")}

BothReturned ==
  saver.fn = "saver" /\ \A p \in Savers : saver[p].pc = "done"

\* C13: once two racing saves have both finished, no system call having
\* failed for a reason of its own, the destination exists and holds the
\* complete content written by one of the two.
C13_LastWriterWins ==
  BothReturned /\ disk.faults = 0 =>
    /\ disk.dest # NoInode
    /\ disk.inodes[disk.dest] \in { ContentOf(p) : p \in Savers }

\* two saves one after the other leave the content of the second
C13_OneAfterTheOther ==
  BothReturned /\ disk.faults = 0 =>
    \A p \in Savers :
      saver[p].dest_before = Other(p) /\ saver[p].fd = p =>
        disk.dest = p /\ disk.inodes[p] = ContentOf(p)

FirstRenameFailed(proc) == proc.log # <<>> /\ proc.log[1] = "rename:err"

\* the calls of a save from its first rename on, with the outcomes allowed
\* for the removal
RetriedOnce(proc, removals) ==
  /\ proc.pc = "done" =>
       (proc.ret = "ok" <=> "rename:ok" \in Range(proc.log))
  /\ proc.log = <<>> => proc.pc # "retry"
  /\ proc.log # <<>> => proc.log[1] \in {"rename:ok", "rename:err"}
  /\ proc.log # <<>> /\ proc.log[1] = "rename:ok" =>
       proc.log = <<"rename:ok">> /\ proc.pc = "done"
  /\ FirstRenameFailed(proc) =>
       /\ proc.pc \in {"remove", "retry", "done"}
       /\ proc.pc = "remove" <=> Len(proc.log) = 1
       /\ proc.pc = "retry" <=> Len(proc.log) = 2
       /\ proc.pc = "done" <=> Len(proc.log) = 3
       /\ Len(proc.log) >= 2 => proc.log[2] \in removals
       /\ Len(proc.log) = 3 => proc.log[3] \in {"rename:ok", "rename:err"}

\* C19 as stated: when the first rename fails the destination is removed
\* (or there is none) and the rename is retried exactly once; the save
\* returns success exactly when one of the two renames succeeds, and an
\* error without further retry otherwise.
C19_RemovedThenRetriedOnce ==
  saver.fn = "saver" =>
    \A p \in Savers : RetriedOnce(saver[p], {"remove:ok", "remove:absent"})

\* C19, amended: the removal is attempted once and its outcome ignored, the
\* destination may remain; the rename is retried exactly once; success
\* exactly when one of the two renames succeeds.
C19_RemovalTriedRetriedOnce ==
  saver.fn = "saver" =>
    \A p \in Savers :
      RetriedOnce(saver[p], {"remove:ok", "remove:absent", "remove:err"})

C19_Witness ==
  /\ saver.fn = "saver"
  /\ \E p \in Savers :
       /\ saver[p].pc = "done" /\ saver[p].ret = "ok"
       /\ saver[p].log = <<"rename:err", "remove:err", "rename:ok">>

C19_WitnessError ==
  /\ saver.fn = "saver"
  /\ \E p \in Savers :
       /\ saver[p].pc = "done" /\ saver[p].ret = "err"
       /\ saver[p].log = <<"rename:err", "remove:ok", "rename:err">>

\* C20: a save that returns an error leaves the destination with the
\* content it had before the call.
C20_FailedSaveKeepsDestination ==
  \A p \in Savers :
    Alone(p) /\ saver[p].pc = "done" /\ saver[p].ret = "err" =>
      /\ disk.dest = saver[p].dest_before
      /\ disk.dest # NoInode => disk.inodes[disk.dest] = OldContent

\* a save that fails before its first rename leaves the destination alone
C20_KeptBeforeRename ==
  \A p \in Savers :
    Alone(p) /\ saver[p].pc = "done" /\ saver[p].log = <<>> =>
      /\ disk.dest = saver[p].dest_before
      /\ disk.dest # NoInode => disk.inodes[disk.dest] = OldContent

-----------------------------------------------------------------------------
(* ScanOrchestrator: scan_path *)

\* the tree under the directory /r that scan_path is pointed at
PathTree ==
  (<<NameA>> :> "dir") @@ (<<NameA, NameC>> :> "file") @@ (<<NameN>> :> "file")
  @@ (<<NameS>> :> "symlink")

DevNull == << <<"d","e","v">>, <<"n","u","l","l">> >>

\* what exists, by canonical absolute path: the directory /r, the files and
\* directories under it, and a device, which is neither a file nor a
\* directory
World ==
  [ p \in {Root} \cup {DevNull}
          \cup { Root \o n : n \in { m \in DOMAIN PathTree :
                                       PathTree[m] \in {"dir", "file"} } } |->
      IF p = Root THEN "dir"
      ELSE IF p = DevNull THEN "other"
      ELSE PathTree[strip_prefix(p, Root).rel] ]

\* Path::canonicalize: the path that exists under this name, an error when
\* there is none
canonicalize(name) ==
  LET hits == { p \in DOMAIN World : AbsString("posix", p) = name } IN
  IF hits = {} THEN [ok |-> FALSE, path |-> <<>>, kind |-> "missing"]
  ELSE LET p == CHOOSE x \in hits : TRUE IN
       [ok |-> TRUE, path |-> p, kind |-> World[p]]

NoRecord == [attempted |-> FALSE, ok |-> TRUE]

\* what scan_path returns or goes on with, and the recent file afterwards
Outcome(outcome, fs, rec, root, label, fls) ==
  [outcome |-> outcome, recent |-> fs.recent, tmp |-> fs.tmp, record |-> rec,
   root |-> root, label |-> label, files |-> fls]

\* file_name().map(..).unwrap_or_else(|| abs_path.display().to_string())
label_of(abs_path) ==
  IF has_file_name(abs_path) THEN file_name(abs_path)
  ELSE AbsString("posix", abs_path)

\* let _ = record_recent_path(&abs_path): the files afterwards, and whether
\* it returned Ok
recorded(fs, abs_path, io) ==
  LET r == record_recent_path(fs, AbsString("posix", abs_path), io) IN
  [fs |-> [recent |-> r.recent, tmp |-> r.tmp],
   rec |-> [attempted |-> TRUE, ok |-> r.ok]]

\* lines 556-567 and 570-589: the path recorded, then the scan begun or the
\* single file wrapped
scan_recorded(abs, category, r) ==
  IF abs.kind = "dir"
  THEN Outcome("scanning", r.fs, r.rec, AbsString("posix", abs.path),
               label_of(abs.path), <<>>)
  ELSE Outcome("ok", r.fs, r.rec, AbsString("posix", abs.path),
               label_of(abs.path),
               << [virtual_path |-> label_of(abs.path),
                   abs_path |-> AbsString("posix", abs.path),
                   category |-> category] >>)

\* the error of record_recent_path returned to the caller
scan_path_failing_with_record(path, fs, io) ==
  LET raw == trim(path)
      abs == canonicalize(normalize_file_url_to_path(raw))
  IN  IF raw = <<>> THEN Outcome("none", fs, NoRecord, <<>>, <<>>, <<>>)
      ELSE IF ~abs.ok \/ abs.kind = "other"
           \/ (abs.kind = "file" /\ categorize_file(abs.path) = None)
      THEN Outcome("err", fs, NoRecord, <<>>, <<>>, <<>>)
      ELSE LET r == recorded(fs, abs.path, io) IN
           IF r.rec.ok THEN scan_recorded(abs, categorize_file(abs.path), r)
           ELSE Outcome("err", r.fs, r.rec, <<>>, <<>>, <<>>)

\* the path recorded before the file is classified
scan_path_recording_first(path, fs, io) ==
  LET raw == trim(path)
      abs == canonicalize(normalize_file_url_to_path(raw))
  IN  IF raw = <<>> THEN Outcome("none", fs, NoRecord, <<>>, <<>>, <<>>)
      ELSE IF ~abs.ok \/ abs.kind = "other"
      THEN Outcome("err", fs, NoRecord, <<>>, <<>>, <<>>)
      ELSE LET r == recorded(fs, abs.path, io) IN
           IF abs.kind = "file" /\ categorize_file(abs.path) = None
           THEN Outcome("err", r.fs, r.rec, <<>>, <<>>, <<>>)
           ELSE scan_recorded(abs, categorize_file(abs.path), r)

\* scan_path up to its return or its call of scan_supported_files:
\* Ok(None) for a blank path; Err when the path cannot be canonicalized, is
\* a file of no category, or is neither file nor directory
scan_path(path, fs, io) ==
  LET raw == trim(path)
      abs == canonicalize(normalize_file_url_to_path(raw))
  IN  IF raw = <<>> THEN Outcome("none", fs, NoRecord, <<>>, <<>>, <<>>)
      ELSE IF ~abs.ok THEN Outcome("err", fs, NoRecord, <<>>, <<>>, <<>>)
      ELSE IF abs.kind = "dir"
      THEN scan_recorded(abs, None, recorded(fs, abs.path, io))
      ELSE IF abs.kind = "file"
      THEN IF categorize_file(abs.path) = None
           THEN Outcome("err", fs, NoRecord, <<>>, <<>>, <<>>)
           ELSE scan_recorded(abs, categorize_file(abs.path),
                              recorded(fs, abs.path, io))
      ELSE Outcome("err", fs, NoRecord, <<>>, <<>>, <<>>)

\* the paths the front end passes, each with what it names in the World
PathInputs ==
  { [raw |-> <<>>, target |-> "blank"],
    [raw |-> <<" ">>, target |-> "blank"],
    [raw |-> <<"\t","\n">>, target |-> "blank"],
    [raw |-> <<"/","r">>, target |-> "dir"],
    [raw |-> <<" ","/","r","\n">>, target |-> "dir"],
    [raw |-> <<"f","i","l","e",":","/","/","/","r">>, target |-> "dir"],
    [raw |-> <<"/","r","/","a","/","c",".","M","D">>, target |-> "file"],
    [raw |-> <<"f","i","l","e",":","/","/","/","r","/","a","/","c",".","M","D"," ">>, target |-> "file"],
    [raw |-> <<"/","r","/","n">>, target |-> "unsupported"],
    [raw |-> <<"f","i","l","e",":","/","/","/","r","/","n">>, target |-> "unsupported"],
    [raw |-> <<"/","r","/","x">>, target |-> "missing"],
    [raw |-> <<"x">>, target |-> "missing"],
    [raw |-> <<"f","i","l","e",":","/","/">>, target |-> "missing"],
    [raw |-> <<"/","d","e","v","/","n","u","l","l">>, target |-> "other"] }

\* the recent file before the call: missing, or a list
PathRecentFiles ==
  { Missing, FileWith(recent_content(<<PathNo(1), AbsString("posix", Root)>>)) }

PathInit ==
  /\ host = "posix" /\ tree = PathTree /\ fault \in Faults(PathTree)
  /\ pc = "waiting"
  /\ stack = <<>> /\ dir = <<>> /\ pending = {} /\ files = <<>>
  /\ scanned_dirs = 0 /\ scanned_files = 0 /\ matched_files = 0
  /\ last_emit = 0 /\ now = 0 /\ began = 0
  /\ events = <<>> /\ result = <<>> /\ steps = 0
  /\ pass = 1 /\ rescan = "first"
  /\ first = [files |-> <<>>, scanned_dirs |-> 0, scanned_files |-> 0,
              matched_files |-> 0, fault |-> "none", hidden |-> FALSE]
  /\ recent \in PathRecentFiles /\ recent_tmp = Missing
  /\ history = <<>> /\ pristine = TRUE
  /\ calls = [call |-> NoCall, before |-> NoCall, loaded |-> <<>>]
  /\ ops = 0
  /\ request = [fn |-> "scan_path", state |-> "waiting"]
  /\ disk = Idle /\ saver = Idle /\ reader = Idle
  /\ config = Idle /\ pure = Idle

\* a call of scan_path(path), up to its return or to the call of
\* scan_supported_files; recent_before notes the recent file at the call
ScanPath ==
  /\ request.fn = "scan_path" /\ request.state = "waiting"
  /\ \E input \in PathInputs, io \in IoOutcomes :
       \E r \in {scan_path(input.raw, [recent |-> recent, tmp |-> recent_tmp], io)} :
         /\ request' = [fn |-> "scan_path", state |-> r.outcome,
                        input |-> input, record |-> r.record,
                        root |-> r.root, label |-> r.label, files |-> r.files,
                        recent_before |-> recent]
         /\ recent' = r.recent
         /\ recent_tmp' = r.tmp
         /\ pc' = IF r.outcome = "scanning" THEN "idle" ELSE pc
  /\ UNCHANGED <<host, tree, fault, stack, dir, pending, files, scanned_dirs,
                 scanned_files, matched_files, last_emit, now, began, events,
                 result, pass, rescan, first, steps>>
  /\ UNCHANGED <<history, pristine, calls, ops>>
  /\ UNCHANGED <<disk, saver, reader, config, pure>>

\* lines 563-567: scan_supported_files has returned, scan_path returns
\* Ok(Some(ScanResult)) with its files
ScanPathReturn ==
  /\ request.fn = "scan_path" /\ request.state = "scanning"
  /\ pc = "done"
  /\ request' = [request EXCEPT !.state = "ok", !.files = result]
  /\ UNCHANGED <<scanVars, recentVars, disk, saver, reader, config, pure>>

PathNext == ScanPath \/ ScanStep \/ ScanPathReturn

PathSpecInit == PathInit

PathSpec == PathSpecInit /\ [][PathNext]_vars

-----------------------------------------------------------------------------
(* Properties of scan_path *)

Called == request.fn = "scan_path" /\ request.state # "waiting"

\* C14: scan_path returns no result and no error for a blank path, and an
\* error when the path cannot be canonicalized, names a file of no category
\* or names neither a file nor a directory; in each of these outcomes no
\* progress event is emitted and the recent file is as it was.
C14_NoResultOrErrorLeavesNoTrace ==
  Called =>
    /\ request.input.target = "blank" => request.state = "none"
    /\ request.input.target \in {"missing", "unsupported", "other"}
         => request.state = "err"
    /\ request.state \in {"none", "err"} =>
         /\ request.input.target \notin {"dir", "file"}
         /\ events = <<>> /\ pc = "waiting"
         /\ recent = request.recent_before /\ recent_tmp = Missing
         /\ request.files = <<>>

C14_Witness ==
  /\ Called /\ request.state = "err"
  /\ request.input.target = "unsupported"
  /\ request.recent_before # Missing

C14_WitnessBlank ==
  /\ Called /\ request.state = "none"
  /\ request.input.raw = <<"\t", "\n">>

C14_WitnessMissing ==
  /\ Called /\ request.state = "err"
  /\ request.input.target \in {"missing", "other"}

DirString == <<"/","r">>
FileString == <<"/","r","/","a","/","c",".","M","D">>

\* what scan_path is to return for the directory /r: the supported files the
\* walk reaches, sorted, after a `start` with zero counters and before a
\* `done` with the counts of the tree
DirectoryResult ==
  /\ request.root = DirString /\ request.label = <<"r">>
  /\ request.files = result
  /\ { result[i].abs_path : i \in 1..Len(result) }
       = { AbsString(host, Root \o n) : n \in SupportedFiles }
  /\ Len(result) = Cardinality(SupportedFiles)
  /\ SortedByVirtualPath(result)
  /\ EventOrder
  /\ Counters(events[1]) = <<0, 0, 0>>
  /\ events[Len(events)].stage = "done"
  /\ events[Len(events)].scanned_files = Cardinality(ReachedFiles)
  /\ events[Len(events)].matched_files = Cardinality(SupportedFiles)

\* what scan_path is to return for the file /r/a/c.MD
FileResult ==
  /\ request.root = FileString /\ request.label = NameC
  /\ request.files = << [virtual_path |-> NameC, abs_path |-> FileString,
                         category |-> "markdown"] >>
  /\ events = <<>>

\* C15: on a directory or a supported file scan_path returns no error, and
\* the ScanResult and the events that the path and the tree determine,
\* whether recording the path succeeded or failed.
C15_RecordFailureIgnored ==
  Called /\ request.input.target \in {"dir", "file"} =>
    /\ request.state \in {"scanning", "ok"}
    /\ request.record.attempted
    /\ request.state = "ok" /\ request.input.target = "dir" => DirectoryResult
    /\ request.state = "ok" /\ request.input.target = "file" => FileResult

C15_Witness ==
  /\ Called /\ request.state = "ok" /\ request.input.target = "dir"
  /\ ~request.record.ok
  /\ recent = request.recent_before
  /\ Len(request.files) = 1 /\ Len(events) >= 3

C15_WitnessFile ==
  /\ Called /\ request.state = "ok" /\ request.input.target = "file"
  /\ ~request.record.ok
  /\ Len(request.files) = 1

C15_WitnessRecorded ==
  /\ Called /\ request.state = "ok" /\ request.input.target = "dir"
  /\ request.record.ok
  /\ recent # request.recent_before
  /\ Len(request.files) = 1 /\ Len(events) >= 3

====
